---------------------------- MODULE Spec2Model ----------------------------
(***************************************************************************)
(* Model of the movie-rating MLOps pipeline (movie-mlops-project).         *)
(*                                                                         *)
(*  - serving/main.py + serving/services/*: the FastAPI process, its       *)
(*    startup hook and its endpoint handlers (ServeSpec), and the          *)
(*    SimplePredictionService object under arbitrary call sequences        *)
(*    (ApiSpec);                                                           *)
(*  - model/register_mlflow.py: register_and_promote_model against the     *)
(*    model registry, with a concurrent reader of the registry and a       *)
(*    concurrent load_production_model (RegSpec); the script's __main__    *)
(*    with find_best_run_id (MainSpec);                                    *)
(*  - preprocessing/preprocessing.py: step2_data_cleaning and              *)
(*    run_full_pipeline on a bounded input frame (CleanSpec); steps 3 to 6 *)
(*    and the save (PipeSpec); step 5 called repeatedly (ScaleSpec); the   *)
(*    row-wise features of step 3 (FeatSpec);                              *)
(*  - preprocessing/crawler.py, test_data_crawler.py: the page loop        *)
(*    (CrawlSpec);                                                         *)
(*  - model/train.py, train_mlflow.py: train_model and its tracking run    *)
(*    (TrainSpec);                                                         *)
(*  - dags/movie_pipeline.py: one run of the task chain (DagSpec).         *)
(*                                                                         *)
(* Numbers: a predicted rating is an integer number of thousandths         *)
(* (8100 is 8.1); a rounded rating is an integer number of hundredths      *)
(* (810 is 8.10); vote_average is an integer number of tenths (55 is 5.5). *)
(***************************************************************************)
EXTENDS Integers, Sequences, FiniteSets, TLC

VARIABLES
    \* ---- serving process (serving/main.py, services/*.py) ----
    pc,               \* position of the process: "boot", "constructed", "initialized", "serving"; "api" in ApiSpec
    svc,              \* main.prediction_service is not None
    is_ready,         \* SimplePredictionService.is_ready
    is_model_loaded,  \* MLflowModelService.is_model_loaded
    model_version,    \* MLflowModelService.model_version (0 is None)
    is_data_loaded,   \* DataService.is_data_loaded
    data,             \* DataService.data: the id column of the loaded CSV, in row order
    predictions,      \* SimplePredictionService.predictions
    init_result,      \* what initialize() returned last
    pred_result,      \* what predict_all() returned last
    resp,             \* the last HTTP response
    npredict,         \* how many times the prediction cache has been written
    \* ---- model registry (model/register_mlflow.py) ----
    reg,              \* registry: reg[v] is the stage of version v of the model name
    reg0,             \* the registry when register_and_promote_model was called
    rpc,              \* position of register_and_promote_model
    newver,           \* registered_model.version (0 before registration)
    todo,             \* versions of the search result still to be visited by the loop
    obs,              \* what a concurrent reader of the registry saw last
    \* ---- preprocessing (preprocessing/preprocessing.py) ----
    cols,             \* columns of the frame step1 built (among the required ones)
    rows,             \* rows of the frame step1 built, in file order
    cpc,              \* "input" while the document is being written, "done" after the pipeline ran
    deduped,          \* the frame after drop_duplicates (line 51)
    cleaned,          \* what step2_data_cleaning produced
    steps,            \* the steps run_full_pipeline entered, in order
    result,           \* what run_full_pipeline produced: "none_yet", "None", "results", "raised"
    \* ---- preprocessing, steps 3 to 6 and the saved files ----
    has_date,         \* the records carry a release_date
    cframe,           \* the cleaned frame given to step 3: release year and popularity of each row
    ppc,              \* "input", then the last step done: "step3" .. "step6", "saved"; "raised"
    pcols,            \* the columns of df, in order
    pyears,           \* the release_year column (in half years), <<>> when there is none
    psplit,           \* what step 6 returned: branch, threshold, train and test rows
    manifest,         \* results['feature_names']
    csv,              \* the header lines of tmdb_train.csv and tmdb_test.csv
    \* ---- a TMDBDataPreprocessor object under repeated step5_feature_scaling ----
    scaler,           \* self.scaler: what the StandardScaler was last fitted on
    label_encoders,   \* self.label_encoders: column -> classes_ of its LabelEncoder
    scale_in,         \* the dataset of the last call
    scale_out,        \* what the last call produced
    enc_before,       \* self.label_encoders as the last call found it
    ncalls,           \* calls so far (counted up to 2)
    \* ---- step 3 on one row ----
    frow,             \* the row: vote_average (tenths) and the genre_ids cell
    feat,             \* the features step 3 derived from it
    fpc,              \* "input", "done"
    \* ---- crawler (preprocessing/crawler.py, test_data_crawler.py) ----
    crawler,          \* "TMDBCrawler" or "TestDataCrawler"
    start_page,       \* first page of the range
    end_page,         \* last page of the range
    page,             \* the loop variable: the page to request next
    movies,           \* the list the loop extends
    requested,        \* the pages requested so far, in order
    fetched,          \* the answer each requested page got
    kpc,              \* "crawling", "returned", "raised"
    \* ---- training (model/train.py, model/train_mlflow.py) ----
    script,           \* "train.py" or "train_mlflow.py"
    train_columns,    \* the columns of the train CSV
    feature_names,    \* the manifest given to train_model
    tpc,              \* the step train_model is about to do; "returned", "raised"
    run_status,       \* status of the tracking run: "none", "RUNNING", "FINISHED", "FAILED"
    active_run,       \* TRUE while the run is on the stack of active runs
    calls,            \* the steps called so far, in order
    failed_step,      \* the step that failed ("none" when none did)
    \* ---- registration script (model/register_mlflow.py, __main__) ----
    run_id_arg,       \* --run_id: a run id, or 0 when the option is not given
    experiment,       \* TRUE when the tracking store has the named experiment
    runs,             \* the runs of the experiment: run id -> [rmse, active]
    search,           \* the rows search_runs returned (run ids), <<>> before the call
    run_id_to_register, \* the run id the script registers, 0 while undecided
    mpc,              \* "find", "call", "in_call", "exit0", "exit1"
    find_error,       \* what find_best_run_id raised ("none" when nothing)
    \* ---- load_production_model beside a promotion (serving/services/mlflow_service.py) ----
    lpc,              \* "check", "load", "loaded", "failed"
    model_check,      \* what check_production_model_exists returned
    loaded_model,     \* the registry version of the object load_model gave, 0 when none
    \* ---- one run of the DAG (dags/movie_pipeline.py) ----
    dag_task,         \* the position in the chain of the task to run next
    try_number,       \* the attempt of that task, from 1
    attempts,         \* the attempts made so far, in order, with what run_script saw
    dag_state         \* "running", "success", "failed"

serveVars == <<pc, svc, is_ready, is_model_loaded, model_version, is_data_loaded,
               data, predictions, init_result, pred_result, resp, npredict>>
regVars == <<reg, reg0, rpc, newver, todo, obs>>
cleanVars == <<cols, rows, cpc, deduped, cleaned, steps, result>>
pipeVars == <<has_date, cframe, ppc, pcols, pyears, psplit, manifest, csv>>
scaleVars == <<scaler, label_encoders, scale_in, scale_out, enc_before, ncalls>>
featVars == <<frow, feat, fpc>>
crawlVars == <<crawler, start_page, end_page, page, movies, requested, fetched, kpc>>
trainVars == <<script, train_columns, feature_names, tpc, run_status, active_run, calls,
               failed_step>>
laterVars == <<pipeVars, scaleVars, featVars, crawlVars, trainVars>>
mainVars == <<run_id_arg, experiment, runs, search, run_id_to_register, mpc, find_error>>
loadVars == <<lpc, model_check, loaded_model>>
dagVars == <<dag_task, try_number, attempts, dag_state>>
lastVars == <<mainVars, loadVars, dagVars>>
vars == <<serveVars, regVars, cleanVars, laterVars, lastVars>>

-----------------------------------------------------------------------------
(* Bounds of the model *)

MaxMovies == 3
MaxVersions == 3
MaxRows == 3
MaxFrame == 3
MaxScaleRows == 3
MaxGenres == 2
MaxPages == 3
MaxPerPage == 2
MaxRuns == 2

(* Program constants *)

TopLimitMin == 1
TopLimitMax == 50
DefaultLimit == 10
MinVoteCount == 10
MaxVoteAverage == 100
TestFirstPage == 21
TestLastPage == 30
Retries == 1

-----------------------------------------------------------------------------
(* Generic helpers *)

Min(a, b) == IF a < b THEN a ELSE b

SetMax(S) == CHOOSE x \in S : \A y \in S : y <= x

Range(s) == {s[i] : i \in 1..Len(s)}

\* sequences over S of length at most n, without repetition
InjSeqs(S, n) == {s \in UNION {[1..k -> S] : k \in 0..n} :
                    \A i, j \in 1..Len(s) : i # j => s[i] # s[j]}

-----------------------------------------------------------------------------
(***************************************************************************)
(* Serving: value domains                                                  *)
(***************************************************************************)

MovieIds == 1..MaxMovies

\* predicted ratings the model can produce, in thousandths
Ratings == {6400, 8100, 8104, 9000}

\* the test CSV the process can find: its id column, one entry per row
\* (preprocessing dropped duplicate ids before the file was written)
CsvFiles == InjSeqs(MovieIds, MaxMovies)

\* registry versions the Production lookup can report
ProdVersions == 1..2

\* what the registry can answer to load_production_model
ModelOutcomes ==
    {[kind |-> k, version |-> 0] : k \in {"conn_fail", "no_production"}}
    \cup {[kind |-> k, version |-> v] : k \in {"load_fail", "ok"}, v \in ProdVersions}

\* what the file system can answer to load_data
DataOutcomes ==
    {[kind |-> k, ids |-> <<>>] : k \in {"missing", "read_fail"}}
    \cup {[kind |-> "ok", ids |-> f] : f \in CsvFiles}

\* the files and ratings used when the service object is driven call by call
\* (an empty file or a file with the one row of movie 1)
ApiDataOutcomes == {d \in DataOutcomes : Len(d.ids) <= 1 /\ Range(d.ids) \subseteq {1}}

\* the limits of GET /top-movies that are tried: every limit up to one more than
\* the largest cache, the default, and the largest limit the Query accepts
TopLimits ==
    {n \in TopLimitMin..TopLimitMax :
        n <= MaxMovies + 1 \/ n = DefaultLimit \/ n = TopLimitMax}

\* self.predictions = None
NoPredictions == [set |-> FALSE, movie_ids |-> <<>>, predictions |-> <<>>, sample_count |-> 0]

NoResult == [called |-> FALSE, success |-> FALSE, cause |-> "none"]

NoResponse == [endpoint |-> "none", status |-> 0, body |-> [kind |-> "none"]]

DataEndpoints == {"/predictions", "/top-movies", "/stats"}

\* exceptions that reach the outer handler of initialize(): every callee
\* catches Exception itself and returns a dict, so none does
InitializeRaises == {FALSE}

-----------------------------------------------------------------------------
(***************************************************************************)
(* Serving: the service objects                                            *)
(***************************************************************************)

\* MLflowModelService.load_production_model: the new model fields and the dict returned
LoadProductionModel(m) ==
    IF is_model_loaded
    THEN [success |-> TRUE, cause |-> "already_loaded",
          is_model_loaded |-> TRUE, model_version |-> model_version]
    ELSE IF m.kind \in {"conn_fail", "no_production"}
    THEN [success |-> FALSE, cause |-> m.kind,
          is_model_loaded |-> is_model_loaded, model_version |-> model_version]
    ELSE IF m.kind = "load_fail"
    THEN [success |-> FALSE, cause |-> "load_fail",
          is_model_loaded |-> FALSE, model_version |-> 0]
    ELSE [success |-> TRUE, cause |-> "loaded",
          is_model_loaded |-> TRUE, model_version |-> m.version]

\* DataService.load_data: the new data fields and the dict returned
LoadData(d) ==
    IF d.kind = "missing"
    THEN [success |-> FALSE, cause |-> "csv_missing",
          is_data_loaded |-> is_data_loaded, data |-> data]
    ELSE IF d.kind = "read_fail"
    THEN [success |-> FALSE, cause |-> "csv_read_fail",
          is_data_loaded |-> FALSE, data |-> <<>>]
    ELSE [success |-> TRUE, cause |-> "loaded",
          is_data_loaded |-> TRUE, data |-> d.ids]

IsReadyAfterInitializeReset(cur, modelOk, dataOk, raised) ==
    (~raised) /\ modelOk /\ dataOk

\* SimplePredictionService.initialize: the value of is_ready when it returns
IsReadyAfterInitialize(cur, modelOk, dataOk, raised) ==
    IF raised THEN FALSE
    ELSE IF modelOk /\ dataOk THEN TRUE
    ELSE cur

\* SimplePredictionService.initialize
DoInitialize(m, d, raised) ==
    LET mr == LoadProductionModel(m)
        dr == IF mr.success THEN LoadData(d)
              ELSE [success |-> FALSE, cause |-> "not_called",
                    is_data_loaded |-> is_data_loaded, data |-> data]
    IN  /\ svc
        /\ is_model_loaded' = mr.is_model_loaded
        /\ model_version' = mr.model_version
        /\ is_data_loaded' = dr.is_data_loaded
        /\ data' = dr.data
        /\ is_ready' = IsReadyAfterInitialize(is_ready, mr.success, dr.success, raised)
        /\ init_result' = [called |-> TRUE,
                           success |-> (~raised) /\ mr.success /\ dr.success,
                           cause |-> IF raised THEN "exception"
                                     ELSE IF ~mr.success THEN mr.cause
                                     ELSE dr.cause]
        /\ UNCHANGED <<svc, predictions, npredict>>

\* SimplePredictionService.predict_all; ok: drop(), predict() and tolist() did not raise
DoPredictAll(ok, ratings) ==
    /\ svc
    /\ IF ~is_ready
       THEN /\ pred_result' = [called |-> TRUE, success |-> FALSE, cause |-> "not_ready"]
            /\ UNCHANGED <<predictions, npredict>>
       ELSE IF ok /\ is_data_loaded /\ is_model_loaded /\ Len(ratings) = Len(data)
       THEN /\ predictions' = [set |-> TRUE, movie_ids |-> data,
                               predictions |-> ratings, sample_count |-> Len(ratings)]
            /\ npredict' = Min(npredict + 1, 2)
            /\ pred_result' = [called |-> TRUE, success |-> TRUE, cause |-> "predicted"]
       ELSE /\ pred_result' = [called |-> TRUE, success |-> FALSE, cause |-> "exception"]
            /\ UNCHANGED <<predictions, npredict>>
    /\ UNCHANGED <<svc, is_ready, is_model_loaded, model_version, is_data_loaded, data>>

GetPredictionsAlwaysAvailable(p) ==
    [available |-> TRUE,
     sample_count |-> p.sample_count,
     results |-> [i \in 1..Min(Len(p.movie_ids), Len(p.predictions)) |->
                    [movie_id |-> p.movie_ids[i], predicted_rating |-> p.predictions[i]]]]

\* SimplePredictionService.get_predictions
GetPredictions(p) ==
    IF ~p.set
    THEN [available |-> FALSE, sample_count |-> 0, results |-> <<>>]
    ELSE [available |-> TRUE,
          sample_count |-> p.sample_count,
          results |-> [i \in 1..Min(Len(p.movie_ids), Len(p.predictions)) |->
                         [movie_id |-> p.movie_ids[i], predicted_rating |-> p.predictions[i]]]]

\* round(x, 2): thousandths to hundredths, a tie going to the even neighbour
Round2(r) ==
    LET q == r \div 10
        t == r % 10
    IN  IF t < 5 THEN q
        ELSE IF t > 5 THEN q + 1
        ELSE IF q % 2 = 0 THEN q ELSE q + 1

\* one step of a stable descending sort: x goes behind every entry rated >= x
RECURSIVE InsertDesc(_, _)
InsertDesc(s, x) ==
    IF s = <<>> THEN <<x>>
    ELSE IF s[1].rating >= x.rating THEN <<s[1]>> \o InsertDesc(Tail(s), x)
    ELSE <<x>> \o s

RECURSIVE SortAscending(_)
SortAscending(s) ==
    IF s = <<>> THEN <<>>
    ELSE LET r == SortAscending(SubSeq(s, 1, Len(s) - 1))
             x == s[Len(s)]
             k == Cardinality({i \in 1..Len(r) : r[i].rating <= x.rating})
         IN  SubSeq(r, 1, k) \o <<x>> \o SubSeq(r, k + 1, Len(r))

\* sorted(zip(movie_ids, predictions), key=lambda x: x[1], reverse=True)
RECURSIVE SortedDesc(_)
SortedDesc(s) ==
    IF s = <<>> THEN <<>>
    ELSE InsertDesc(SortedDesc(SubSeq(s, 1, Len(s) - 1)), s[Len(s)])

\* SimplePredictionService.get_top_movies
GetTopMovies(p, top_n) ==
    IF ~p.set
    THEN [available |-> FALSE, top_movies |-> <<>>, total_count |-> 0]
    ELSE LET zipped == [i \in 1..Min(Len(p.movie_ids), Len(p.predictions)) |->
                          [movie_id |-> p.movie_ids[i], rating |-> p.predictions[i]]]
             sorted_data == SubSeq(SortedDesc(zipped), 1, Min(top_n, Len(zipped)))
         IN  [available |-> TRUE,
              top_movies |-> [rank \in 1..Len(sorted_data) |->
                                [rank |-> rank,
                                 movie_id |-> sorted_data[rank].movie_id,
                                 predicted_rating |-> Round2(sorted_data[rank].rating)]],
              total_count |-> Len(p.predictions)]

\* SimplePredictionService.get_status
GetStatus ==
    [service_ready |-> is_ready,
     model_loaded |-> is_model_loaded,
     data_loaded |-> is_data_loaded,
     predictions_available |-> predictions.set,
     sample_count |-> IF predictions.set THEN predictions.sample_count ELSE 0]

-----------------------------------------------------------------------------
(***************************************************************************)
(* Serving: the startup hook of the process                                *)
(***************************************************************************)

\* the three blocks below leave the registry and the preprocessing alone
ServeFrame == UNCHANGED <<regVars, cleanVars, laterVars, lastVars>>

\* startup_event, lines 97-100: SimplePredictionService() is built; when its
\* constructor raises, the hook logs and ends with prediction_service = None
StartupConstruct ==
    /\ pc = "boot"
    /\ \E ok \in BOOLEAN :
        /\ svc' = ok
        /\ pc' = IF ok THEN "constructed" ELSE "serving"
    /\ UNCHANGED <<is_ready, is_model_loaded, model_version, is_data_loaded, data,
                   predictions, init_result, pred_result, resp, npredict>>
    /\ ServeFrame

\* startup_event, lines 102-115: initialize(); the hook returns when it failed
StartupInitialize ==
    /\ pc = "constructed"
    /\ \E m \in ModelOutcomes, d \in DataOutcomes, raised \in InitializeRaises :
        DoInitialize(m, d, raised)
    /\ pc' = IF init_result'.success THEN "initialized" ELSE "serving"
    /\ UNCHANGED <<pred_result, resp>>
    /\ ServeFrame

\* startup_event, lines 117-150: predict_all(), then the preview and the status
\* (both read only); the hook ends either way
StartupPredictAll ==
    /\ pc = "initialized"
    /\ \E ok \in BOOLEAN, ratings \in [1..Len(data) -> Ratings] :
        DoPredictAll(ok, ratings)
    /\ pc' = "serving"
    /\ UNCHANGED <<init_result, resp>>
    /\ ServeFrame

-----------------------------------------------------------------------------
(***************************************************************************)
(* Serving: calls on the service object from outside the hook (ApiSpec)    *)
(***************************************************************************)

ApiInitialize ==
    /\ pc = "api"
    /\ \E m \in ModelOutcomes, d \in ApiDataOutcomes, raised \in InitializeRaises :
        DoInitialize(m, d, raised)
    /\ UNCHANGED <<pc, pred_result, resp>>
    /\ ServeFrame

ApiPredictAll ==
    /\ pc = "api"
    /\ \E ok \in BOOLEAN, ratings \in [1..Len(data) -> Ratings] :
        DoPredictAll(ok, ratings)
    /\ UNCHANGED <<pc, init_result, resp>>
    /\ ServeFrame

-----------------------------------------------------------------------------
(***************************************************************************)
(* Serving: the endpoint handlers                                          *)
(***************************************************************************)

AcceptingDuringStartup == TRUE

\* the server takes requests once the startup hook has ended
Accepting == pc \in {"serving", "api"}

ServiceUnavailableNoReadyCheck == ~svc

\* lines 225-229, 258-262, 292-296: the two 503 exits of a data endpoint
ServiceUnavailable == (~svc) \/ (~is_ready)

ReadOnlySortsInPlace ==
    /\ predictions' =
         IF predictions.set /\ resp'.endpoint = "/top-movies"
         THEN LET z == SortedDesc([i \in 1..Len(predictions.movie_ids) |->
                          [movie_id |-> predictions.movie_ids[i],
                           rating |-> predictions.predictions[i]]])
              IN  [predictions EXCEPT !.movie_ids = [i \in 1..Len(z) |-> z[i].movie_id],
                                      !.predictions = [i \in 1..Len(z) |-> z[i].rating]]
         ELSE predictions
    /\ UNCHANGED <<pc, svc, is_ready, is_model_loaded, model_version, is_data_loaded,
                   data, init_result, pred_result, npredict>>

\* what a handler leaves alone: get_predictions, get_top_movies and get_status
\* only read the service, and no handler assigns to it
ReadOnly ==
    UNCHANGED <<pc, svc, is_ready, is_model_loaded, model_version, is_data_loaded,
                data, predictions, init_result, pred_result, npredict>>

Error(endpoint, status) ==
    [endpoint |-> endpoint, status |-> status, body |-> [kind |-> "error"]]

\* GET /
RootResponse ==
    [endpoint |-> "/", status |-> 200,
     body |-> [kind |-> "root",
               service_status |-> IF svc /\ is_ready THEN "ready" ELSE "initializing",
               predictions_available |-> IF svc /\ predictions.set
                                         THEN predictions.sample_count ELSE 0]]

\* GET /health
HealthResponse ==
    IF ~svc
    THEN [endpoint |-> "/health", status |-> 200, body |-> [kind |-> "health", status |-> "starting"]]
    ELSE [endpoint |-> "/health", status |-> 200,
          body |-> [kind |-> "health",
                    status |-> IF GetStatus.service_ready THEN "healthy" ELSE "unhealthy",
                    service_details |-> GetStatus]]

\* GET /predictions
PredictionsResponse ==
    IF ServiceUnavailable THEN Error("/predictions", 503)
    ELSE LET got == GetPredictions(predictions)
         IN  IF ~got.available THEN Error("/predictions", 404)
             ELSE [endpoint |-> "/predictions", status |-> 200,
                   body |-> [kind |-> "predictions",
                             total_count |-> got.sample_count,
                             predictions |-> got.results]]

\* GET /top-movies?limit=
TopMoviesResponse(limit) ==
    IF ServiceUnavailable THEN Error("/top-movies", 503)
    ELSE LET top == GetTopMovies(predictions, limit)
         IN  IF ~top.available THEN Error("/top-movies", 404)
             ELSE [endpoint |-> "/top-movies", status |-> 200,
                   body |-> [kind |-> "top",
                             limit |-> limit,
                             top_movies |-> top.top_movies,
                             total_movies |-> top.total_count,
                             showing_count |-> Len(top.top_movies)]]

\* GET /stats; statistics.mean raises on an empty list, which the handler turns
\* into a 500. The mean, median and deviation of the body are left out: they
\* are numbers derived from the ratings that nothing reads back.
StatsResponse ==
    IF ServiceUnavailable THEN Error("/stats", 503)
    ELSE LET got == GetPredictions(predictions)
             ratings == [i \in 1..Len(got.results) |-> got.results[i].predicted_rating]
             count(lo, hi) == Cardinality({i \in 1..Len(ratings) : lo <= ratings[i] /\ ratings[i] < hi})
         IN  IF ~got.available THEN Error("/stats", 404)
             ELSE IF Len(ratings) = 0 THEN Error("/stats", 500)
             ELSE [endpoint |-> "/stats", status |-> 200,
                   body |-> [kind |-> "stats",
                             total_movies |-> Len(ratings),
                             max_rating |-> Round2(SetMax(Range(ratings))),
                             min_rating |-> Round2(-SetMax({-r : r \in Range(ratings)})),
                             distribution |-> <<count(8000, 100000), count(7000, 8000),
                                                count(6000, 7000), count(5000, 6000),
                                                count(-100000, 5000)>>]]

\* GET /predict-status
PredictStatusResponse ==
    IF ~svc
    THEN [endpoint |-> "/predict-status", status |-> 200,
          body |-> [kind |-> "status", service_available |-> FALSE]]
    ELSE [endpoint |-> "/predict-status", status |-> 200,
          body |-> [kind |-> "status", service_available |-> TRUE, status |-> GetStatus]]

ReqRoot ==
    /\ Accepting /\ resp' = RootResponse /\ ReadOnly /\ ServeFrame

ReqHealth ==
    /\ Accepting /\ resp' = HealthResponse /\ ReadOnly /\ ServeFrame

ReqPredictions ==
    /\ Accepting /\ resp' = PredictionsResponse /\ ReadOnly /\ ServeFrame

\* a limit outside [1, 50] is refused by the Query validation before the handler runs
ReqTopMovies ==
    /\ Accepting
    /\ \E limit \in TopLimits : resp' = TopMoviesResponse(limit)
    /\ ReadOnly
    /\ ServeFrame

ReqStats ==
    /\ Accepting /\ resp' = StatsResponse /\ ReadOnly /\ ServeFrame

ReqPredictStatus ==
    /\ Accepting /\ resp' = PredictStatusResponse /\ ReadOnly /\ ServeFrame

-----------------------------------------------------------------------------
(***************************************************************************)
(* Registry: register_and_promote_model and a concurrent reader            *)
(***************************************************************************)

Stages == {"None", "Staging", "Production"}

\* the registry of the model name before the call: any stage for each version,
\* several versions in Production included
Registries == UNION {[1..n -> Stages] : n \in 0..MaxVersions}

\* the versions of a registry state that hold Production
ProdSet(r) == {v \in DOMAIN r : r[v] = "Production"}

NoObservation == [taken |-> FALSE, during |-> FALSE, seen |-> {}, exists |-> FALSE, version |-> 0]

RegFrame == UNCHANGED <<serveVars, cleanVars, laterVars, lastVars>>

PromotionStepsPromoteFirst == <<"register", "promote_new", "demote_current">>

\* the order of the calls of register_and_promote_model: register_model (63),
\* the loop that moves the current holders to "None" (76-83), then the
\* transition of the new version to the stage (86-90)
PromotionSteps == <<"register", "demote_current", "promote_new">>

\* where the function is once the step `name` is done
AfterStep(name) ==
    LET i == CHOOSE k \in 1..Len(PromotionSteps) : PromotionSteps[k] = name
    IN  IF i = Len(PromotionSteps) THEN "returned" ELSE PromotionSteps[i + 1]

LatestStageHolder(r, stage) ==
    LET h == {v \in DOMAIN r : r[v] = stage}
    IN  IF h = {} THEN {} ELSE {SetMax(h)}

\* the versions the loop of lines 76-77 transitions: those of the search
\* result whose current_stage is the stage
StageHolders(r, stage) == {v \in DOMAIN r : r[v] = stage}

\* mlflow.register_model: a new version, one above the last, in stage "None"
RegRegister ==
    /\ rpc = "register"
    /\ \E ok \in BOOLEAN :
        IF ok
        THEN /\ reg' = Append(reg, "None")
             /\ newver' = Len(reg) + 1
             /\ rpc' = AfterStep("register")
        ELSE /\ rpc' = "raised"
             /\ UNCHANGED <<reg, newver>>
    /\ UNCHANGED <<reg0, todo, obs>>
    /\ RegFrame

\* client.search_model_versions: the loop will visit the holders of the stage
RegSearch ==
    /\ rpc = "demote_current"
    /\ \E ok \in BOOLEAN :
        IF ok
        THEN /\ todo' = StageHolders(reg, "Production")
             /\ rpc' = IF todo' = {} THEN AfterStep("demote_current") ELSE "loop"
        ELSE /\ rpc' = "raised"
             /\ UNCHANGED todo
    /\ UNCHANGED <<reg, reg0, newver, obs>>
    /\ RegFrame

\* one pass of the loop body: transition_model_version_stage(version, "None")
RegDemote ==
    /\ rpc = "loop"
    /\ \E v \in todo, ok \in BOOLEAN :
        IF ok
        THEN /\ reg' = [reg EXCEPT ![v] = "None"]
             /\ todo' = todo \ {v}
             /\ rpc' = IF todo' = {} THEN AfterStep("demote_current") ELSE "loop"
        ELSE /\ rpc' = "raised"
             /\ UNCHANGED <<reg, todo>>
    /\ UNCHANGED <<reg0, newver, obs>>
    /\ RegFrame

\* transition_model_version_stage(registered_model.version, stage)
RegPromote ==
    /\ rpc = "promote_new"
    /\ \E ok \in BOOLEAN :
        IF ok
        THEN /\ reg' = [reg EXCEPT ![newver] = "Production"]
             /\ rpc' = AfterStep("promote_new")
        ELSE /\ rpc' = "raised"
             /\ UNCHANGED reg
    /\ UNCHANGED <<reg0, newver, todo, obs>>
    /\ RegFrame

\* MLflowModelService.check_production_model_exists:
\* get_latest_versions(stages=["Production"]) gives the latest holder, if any
CheckProductionModelExists(r) ==
    [exists |-> ProdSet(r) # {},
     version |-> IF ProdSet(r) = {} THEN 0 ELSE SetMax(ProdSet(r))]

\* another process (the serving service at its startup) reads the registry
ReaderLookup ==
    /\ obs' = [taken |-> TRUE,
               during |-> rpc \notin {"returned", "raised"},
               seen |-> ProdSet(reg),
               exists |-> CheckProductionModelExists(reg).exists,
               version |-> CheckProductionModelExists(reg).version]
    /\ obs' # obs
    /\ UNCHANGED <<reg, reg0, rpc, newver, todo>>
    /\ RegFrame

\* load_production_model of another process, up to the existence check:
\* the early exits (connection failure, no Production version), else the
\* version get_latest_versions gave is kept in model_check
LoaderCheck ==
    /\ lpc = "check"
    /\ ~is_model_loaded
    /\ \E connected \in BOOLEAN :
        LET c == CheckProductionModelExists(reg)
        IN  IF connected /\ c.exists
            THEN lpc' = "load" /\ model_check' = c
            ELSE lpc' = "failed" /\ UNCHANGED model_check
    /\ UNCHANGED loaded_model
    /\ UNCHANGED <<serveVars, regVars, cleanVars, laterVars, mainVars, dagVars>>

\* the version models:/<name>/Production resolves to when the load runs: the
\* latest holder of the stage at that time
ResolveProduction(r) == IF ProdSet(r) = {} THEN 0 ELSE SetMax(ProdSet(r))

\* load_production_model, the try block: load_model("models:/<name>/Production"),
\* then is_model_loaded = True and model_version = model_check['version'];
\* the except branch resets the three fields
LoaderLoad ==
    /\ lpc = "load"
    /\ \E fetched_ok \in BOOLEAN :
        IF fetched_ok /\ ResolveProduction(reg) # 0
        THEN /\ loaded_model' = ResolveProduction(reg)
             /\ is_model_loaded' = TRUE
             /\ model_version' = model_check.version
             /\ lpc' = "loaded"
        ELSE /\ loaded_model' = 0
             /\ is_model_loaded' = FALSE
             /\ model_version' = 0
             /\ lpc' = "failed"
    /\ UNCHANGED model_check
    /\ UNCHANGED <<pc, svc, is_ready, is_data_loaded, data, predictions, init_result,
                   pred_result, resp, npredict>>
    /\ UNCHANGED <<regVars, cleanVars, laterVars, mainVars, dagVars>>

-----------------------------------------------------------------------------
(***************************************************************************)
(* Preprocessing: the frame step1 builds, step2_data_cleaning and          *)
(* run_full_pipeline                                                       *)
(***************************************************************************)

\* a cell of the frame: a number, a missing value (null / NaN), a text that is
\* no number ("N/A"), or a text that spells a number ("7")
Num(n) == [t |-> "num", v |-> n]
NaN == [t |-> "nan", v |-> 0]
Txt == [t |-> "str", v |-> 0]
NumTxt(n) == [t |-> "numstr", v |-> n]

IsText(c) == c.t \in {"str", "numstr"}

\* required_columns (line 55)
RequiredColumns == {"id", "vote_average", "vote_count", "popularity"}

Kind(id, va, vc, pop) ==
    [id |-> id, vote_average |-> va, vote_count |-> vc, popularity |-> pop]

\* the records a document can hold when all four keys occur: two clean records
\* per identifier that differ in the other fields, and records with one field
\* out of range, missing or textual (vote_average in tenths)
FullKinds ==
    {Kind(Num(i), Num(55), Num(10), Num(7)) : i \in 1..2}
    \cup {Kind(Num(i), Num(100), Num(20), Num(9)) : i \in 1..2}
    \cup {Kind(Num(i), Num(55), Num(5), Num(7)) : i \in 1..2}
    \cup {Kind(Num(1), Num(0), Num(20), Num(7)),
          Kind(Num(2), Num(105), Num(20), Num(7)),
          Kind(Num(1), Num(55), Num(20), NaN),
          Kind(Num(2), NaN, Num(20), Num(7)),
          Kind(Num(1), Txt, Num(20), Num(7)),
          Kind(Num(2), Num(0), Txt, Num(7)),
          Kind(Num(2), Num(55), Txt, Num(7)),
          Kind(Num(1), Num(55), Num(20), Txt),
          Kind(Num(2), Num(55), Num(20), NumTxt(7)),
          Kind(NaN, Num(55), Num(10), Num(7))}

\* a record seen through the columns c: a key that no record has gives no column
Mask(k, c) == [f \in DOMAIN k |-> IF f \in c THEN k[f] ELSE NaN]

\* the records of a document in which some required key never occurs
PartialKinds(c) ==
    {Mask(k, c) : k \in {Kind(Num(1), Num(55), Num(10), Num(7)),
                         Kind(Num(2), Num(55), Num(10), Num(7)),
                         Kind(Num(1), Num(100), Num(20), Num(9))}}

KindsFor(c) == IF c = RequiredColumns THEN FullKinds ELSE PartialKinds(c)

\* steps 3 to 6 are not detailed here; each can raise on the frame it is given
\* (0: none of them raises)
LateFailures == {0, 3, 4, 5, 6}

NoFrame == [outcome |-> "none_yet", frame |-> <<>>]

CleanFrameOther == UNCHANGED <<serveVars, regVars, laterVars, lastVars>>

RECURSIVE DropDuplicatesKeepLast(_)
DropDuplicatesKeepLast(s) ==
    IF s = <<>> THEN <<>>
    ELSE IF \E j \in 2..Len(s) : s[j].id = s[1].id
    THEN DropDuplicatesKeepLast(Tail(s))
    ELSE <<s[1]>> \o DropDuplicatesKeepLast(Tail(s))

RECURSIVE DropDupFrom(_, _)
DropDupFrom(s, seen) ==
    IF s = <<>> THEN <<>>
    ELSE IF s[1].id \in seen THEN DropDupFrom(Tail(s), seen)
    ELSE <<s[1]>> \o DropDupFrom(Tail(s), seen \cup {s[1].id})

\* df.drop_duplicates(subset=['id'], keep='first'); two missing ids count as equal
DropDuplicates(s) == DropDupFrom(s, {})

RatingInScaleNoUpperBound(r) == TRUE

EnoughVotesStrict(r) == r.vote_count.t = "num" /\ r.vote_count.v > MinVoteCount

\* df['vote_average'] > 0 (a missing value compares false)
RatingPositive(r) == r.vote_average.t = "num" /\ r.vote_average.v > 0

\* df['vote_count'] >= 10
EnoughVotes(r) == r.vote_count.t = "num" /\ r.vote_count.v >= MinVoteCount

\* df['vote_average'] <= 10
RatingInScale(r) == r.vote_average.t = "num" /\ r.vote_average.v <= MaxVoteAverage

\* pd.to_numeric(errors='coerce') on one cell
ToNumeric(c) ==
    IF c.t = "numstr" THEN Num(c.v)
    ELSE IF c.t = "str" THEN NaN
    ELSE c

\* lines 71-74: the three numeric columns are coerced
Coerce(r) ==
    [r EXCEPT !.vote_average = ToNumeric(r.vote_average),
              !.vote_count = ToNumeric(r.vote_count),
              !.popularity = ToNumeric(r.popularity)]

\* df.dropna(subset=required_columns) keeps a row with no missing required cell
NoneMissing(r) ==
    /\ r.id.t # "nan"
    /\ r.vote_average.t # "nan"
    /\ r.vote_count.t # "nan"
    /\ r.popularity.t # "nan"

\* step2_data_cleaning. Comparing a column that holds a text with a number raises
\* TypeError; each filter looks only at the rows the filters before it kept.
Clean(c, s) ==
    IF "id" \notin c
    THEN [outcome |-> "raised", frame |-> <<>>, deduped |-> <<>>]
    ELSE LET d == DropDuplicates(s)
         IN  IF RequiredColumns \ c # {}
             THEN [outcome |-> "None", frame |-> <<>>, deduped |-> d]
             ELSE IF \E i \in 1..Len(d) : IsText(d[i].vote_average)
             THEN [outcome |-> "raised", frame |-> <<>>, deduped |-> d]
             ELSE LET f1 == SelectSeq(d, RatingPositive)
                  IN  IF \E i \in 1..Len(f1) : IsText(f1[i].vote_count)
                      THEN [outcome |-> "raised", frame |-> <<>>, deduped |-> d]
                      ELSE LET f2 == SelectSeq(f1, EnoughVotes)
                               f3 == SelectSeq(f2, RatingInScale)
                               f4 == [i \in 1..Len(f3) |-> Coerce(f3[i])]
                           IN  [outcome |-> "frame",
                                frame |-> SelectSeq(f4, NoneMissing),
                                deduped |-> d]

\* a record is written to the document (the crawler's output, read by step1);
\* ix is the row's index label in the frame
AddRow ==
    /\ cpc = "input"
    /\ Len(rows) < MaxRows
    /\ \E k \in KindsFor(cols) :
        rows' = Append(rows, [ix |-> Len(rows) + 1, id |-> k.id,
                              vote_average |-> k.vote_average,
                              vote_count |-> k.vote_count,
                              popularity |-> k.popularity])
    /\ UNCHANGED <<cols, cpc, deduped, cleaned, steps, result>>
    /\ CleanFrameOther

\* run_full_pipeline: step1 always gives a frame; step2 gives a frame, None or
\* raises; steps 3 to 6 run only on a frame
RunFullPipeline ==
    /\ cpc = "input"
    /\ cols = {} \/ rows # <<>>
    /\ cpc' = "done"
    /\ LET c == Clean(cols, rows)
       IN  /\ deduped' = c.deduped
           /\ cleaned' = [outcome |-> c.outcome, frame |-> c.frame]
           /\ IF c.outcome = "raised"
              THEN steps' = <<1, 2>> /\ result' = "raised"
              ELSE IF c.outcome = "None"
              THEN steps' = <<1, 2>> /\ result' = "None"
              ELSE \E late \in LateFailures :
                      IF late = 0
                      THEN steps' = <<1, 2, 3, 4, 5, 6>> /\ result' = "results"
                      ELSE steps' = [i \in 1..late |-> i] /\ result' = "raised"
    /\ UNCHANGED <<cols, rows>>
    /\ CleanFrameOther

\* step1_load_and_inspect on a file that is no JSON document: json.load raises,
\* nothing catches it, and run_full_pipeline ends there
Step1ParseError ==
    /\ cpc = "input"
    /\ cols = {} /\ rows = <<>>
    /\ cpc' = "done"
    /\ steps' = <<1>>
    /\ result' = "raised"
    /\ UNCHANGED <<cols, rows, deduped, cleaned>>
    /\ CleanFrameOther

-----------------------------------------------------------------------------
(***************************************************************************)
(* Preprocessing: steps 3 to 6 of run_full_pipeline and save_processed_data *)
(* on a cleaned frame. The frame keeps one column of each kind step 5      *)
(* tells apart: id, popularity (a number), release_date with the           *)
(* release_year and movie_age derived from it, rating_tier (a category)    *)
(* and the target vote_average.                                            *)
(***************************************************************************)

ReleaseYears == {2000, 2001, 2002}

Popularities == {7, 8, 9}

\* target_column='vote_average'
TargetColumn == [base |-> "vote_average", form |-> "raw"]

\* a column: the name it was derived from and the suffix step 5 gave it
Col(base, form) == [base |-> base, form |-> form]

\* the rows a cleaned frame can hold; a date that cannot be read gives no year
FrameRows(hd) ==
    {[year |-> y, popularity |-> q] :
        y \in (IF hd THEN {Num(yy) : yy \in ReleaseYears} \cup {NaN} ELSE {NaN}),
        q \in Popularities}

NoSplit == [branch |-> "none", threshold |-> -1, columns |-> <<>>, train |-> <<>>, test |-> <<>>]

NoCsv == [train |-> <<>>, test |-> <<>>]

PipeFrameOther ==
    UNCHANGED <<serveVars, regVars, cleanVars, scaleVars, featVars, crawlVars, trainVars,
                lastVars>>

\* ascending order of a sequence of integers
RECURSIVE SortedInts(_)
SortedInts(s) ==
    IF s = <<>> THEN <<>>
    ELSE LET r == SortedInts(Tail(s))
             k == Cardinality({i \in 1..Len(r) : r[i] <= s[1]})
         IN  SubSeq(r, 1, k) \o <<s[1]>> \o SubSeq(r, k + 1, Len(r))

\* Series.quantile(k / 5) with linear interpolation, times 5, of a non-empty
\* sequence of integers
QuantileFifths(s, k) ==
    LET o == SortedInts(s)
        n == Len(o)
        lo == ((n - 1) * k) \div 5
        rem == ((n - 1) * k) % 5
        hi == Min(lo + 1, n - 1)
    IN  5 * o[lo + 1] + rem * (o[hi + 1] - o[lo + 1])

\* Series.median() of a non-empty sequence of integers, times 2
MedianTwice(s) ==
    LET o == SortedInts(s)
        n == Len(o)
    IN  IF n % 2 = 1 THEN 2 * o[(n + 1) \div 2] ELSE o[n \div 2] + o[n \div 2 + 1]

\* pd.qcut(df['popularity'], q=5, labels=[5 labels], duplicates='drop'): two
\* equal bin edges leave fewer bins than labels, which raises ValueError
QcutRaises(f) ==
    LET pop == [i \in 1..Len(f) |-> f[i].popularity]
    IN  \E j, k \in 0..5 : j < k /\ QuantileFifths(pop, j) = QuantileFifths(pop, k)

\* lines 87-95: df['release_year'] = df['release_date'].dt.year, in half years
YearColumn(f) ==
    [i \in 1..Len(f) |-> IF f[i].year.t = "num" THEN Num(2 * f[i].year.v) ELSE NaN]

\* lines 192-196: df['release_year'].fillna(df['release_year'].median())
FillYears(ys) ==
    LET known == SelectSeq(ys, LAMBDA c : c.t = "num")
    IN  IF known = <<>> THEN ys
        ELSE LET m == MedianTwice([i \in 1..Len(known) |-> known[i].v \div 2])
             IN  [i \in 1..Len(ys) |-> IF ys[i].t = "num" THEN ys[i] ELSE Num(m)]

\* df[col].isnull(): the rows of the frame of steps 3 and 4 with no value in a
\* column. A date that could not be read is NaT in release_date and, until it is
\* filled, NaN in release_year and movie_age
IsNull(c, f, ys) ==
    IF c.base = "release_date" THEN {i \in 1..Len(f) : f[i].year.t = "nan"}
    ELSE IF c.base \in {"release_year", "movie_age"} THEN {i \in 1..Len(ys) : ys[i].t = "nan"}
    ELSE {}

\* the dtype of a column, as select_dtypes sees it
ColumnKind(c) ==
    IF c.base = "release_date" THEN "datetime"
    ELSE IF c.base = "rating_tier" /\ c.form = "raw" THEN "category"
    ELSE "number"

\* X[col].nunique(): missing values are not counted
NUnique(c) ==
    IF c.base = "id" THEN Len(cframe)
    ELSE IF c.base = "popularity" THEN Cardinality({cframe[i].popularity : i \in 1..Len(cframe)})
    ELSE Cardinality({pyears[i].v : i \in {j \in 1..Len(pyears) : pyears[j].t = "num"}})

\* line 232: what is not scaled: id, content_id, and columns of at most two values
Excluded(c) == c.base \in {"id", "content_id"} \/ NUnique(c) <= 2

FeatureColumnsWithTarget(c) == c

\* step6_train_test_split: X = df.drop(columns=[target_column])
FeatureColumns(c) == SelectSeq(c, LAMBDA x : x # TargetColumn)

\* step5_feature_scaling: the columns of final_df. The encoded columns are
\* added to X (line 249) before original_numeric is read from X (lines 255-256):
\* they are integer columns outside numeric_features, so original_numeric holds
\* them too, after the columns X had
ScaledColumns(c) ==
    LET X == SelectSeq(c, LAMBDA x : x # TargetColumn)
        numeric == SelectSeq(X, LAMBDA x : ColumnKind(x) = "number")
        numeric_features == SelectSeq(numeric, LAMBDA x : ~Excluded(x))
        categorical_features == SelectSeq(X, LAMBDA x : ColumnKind(x) = "category")
        encoded == [i \in 1..Len(categorical_features) |->
                        Col(categorical_features[i].base, "encoded")]
        original_numeric == SelectSeq(numeric, LAMBDA x : Excluded(x)) \o encoded
    IN  [scaled |-> Len(numeric_features),
         untouched |-> Len(original_numeric),
         encoded |-> Len(encoded),
         columns |-> original_numeric
                     \o [i \in 1..Len(numeric_features) |-> Col(numeric_features[i].base, "scaled")]
                     \o encoded
                     \o <<TargetColumn>>]

TrainMaskStrict(y, t) == y.t = "num" /\ 5 * y.v < t

\* train_mask = df['release_year'] <= year_threshold (false for a missing year)
TrainMask(y, t) == y.t = "num" /\ 5 * y.v <= t

\* test_mask = df['release_year'] > year_threshold (false for a missing year)
TestMask(y, t) == y.t = "num" /\ 5 * y.v > t

\* the rows of 1..n that are in the set, in row order
RowsIn(n, S) == SelectSeq([i \in 1..n |-> i], LAMBDA i : i \in S)

\* train_test_split(test_size=0.2): the number of test rows is ceil(0.2 n)
RandomTestSize(n) == (n + 4) \div 5

\* a row of the cleaned frame (the output of step 2) is given
PipeAddRow ==
    /\ ppc = "input"
    /\ Len(cframe) < MaxFrame
    /\ \E r \in FrameRows(has_date) : cframe' = Append(cframe, r)
    /\ UNCHANGED <<has_date, ppc, pcols, pyears, psplit, manifest, csv>>
    /\ PipeFrameOther

\* step3_feature_engineering: the date features when there is a release_date,
\* then the tiers; qcut can raise
PipeStep3 ==
    /\ ppc = "input"
    /\ cframe # <<>>
    /\ IF QcutRaises(cframe)
       THEN /\ ppc' = "raised"
            /\ UNCHANGED <<pcols, pyears>>
       ELSE /\ ppc' = "step3"
            /\ pcols' = <<Col("id", "raw"), TargetColumn, Col("popularity", "raw")>>
                         \o (IF has_date
                             THEN <<Col("release_date", "raw"), Col("release_year", "raw"),
                                    Col("movie_age", "raw")>>
                             ELSE <<>>)
                         \o <<Col("rating_tier", "raw")>>
            /\ pyears' = IF has_date THEN YearColumn(cframe) ELSE <<>>
    /\ UNCHANGED <<has_date, cframe, psplit, manifest, csv>>
    /\ PipeFrameOther

\* step4_handle_missing_values: a missing release_year becomes the median
PipeStep4 ==
    /\ ppc = "step3"
    /\ ppc' = "step4"
    /\ pyears' = FillYears(pyears)
    /\ UNCHANGED <<has_date, cframe, pcols, psplit, manifest, csv>>
    /\ PipeFrameOther

\* step5_feature_scaling; StandardScaler.fit_transform raises on no column
PipeStep5 ==
    /\ ppc = "step4"
    /\ LET sc == ScaledColumns(pcols)
       IN  IF sc.scaled = 0
           THEN ppc' = "raised" /\ UNCHANGED pcols
           ELSE ppc' = "step5" /\ pcols' = sc.columns
    /\ UNCHANGED <<has_date, cframe, pyears, psplit, manifest, csv>>
    /\ PipeFrameOther

\* step6_train_test_split, and the dict run_full_pipeline returns
PipeStep6 ==
    /\ ppc = "step5"
    /\ LET n == Len(cframe)
       IN  IF Col("release_year", "raw") \in Range(pcols)
           THEN LET known == SelectSeq(pyears, LAMBDA c : c.t = "num")
                    t == IF known = <<>> THEN -1
                         ELSE QuantileFifths([i \in 1..Len(known) |-> known[i].v], 4)
                IN  /\ psplit' = [branch |-> "time", threshold |-> t,
                                  columns |-> FeatureColumns(pcols),
                                  train |-> RowsIn(n, {i \in 1..n : TrainMask(pyears[i], t)}),
                                  test |-> RowsIn(n, {i \in 1..n : TestMask(pyears[i], t)})]
                    /\ ppc' = "step6"
                    /\ manifest' = psplit'.columns
           ELSE IF n - RandomTestSize(n) = 0
           THEN ppc' = "raised" /\ UNCHANGED <<psplit, manifest>>
           ELSE \E T \in SUBSET (1..n) :
                    /\ Cardinality(T) = RandomTestSize(n)
                    /\ psplit' = [branch |-> "random", threshold |-> -1,
                                  columns |-> FeatureColumns(pcols),
                                  train |-> RowsIn(n, (1..n) \ T),
                                  test |-> RowsIn(n, T)]
                    /\ ppc' = "step6"
                    /\ manifest' = psplit'.columns
    /\ UNCHANGED <<has_date, cframe, pcols, pyears, csv>>
    /\ PipeFrameOther

\* save_processed_data: pd.concat([X, y], axis=1).to_csv for train and test
SaveProcessedData ==
    /\ ppc = "step6"
    /\ ppc' = "saved"
    /\ csv' = [train |-> psplit.columns \o <<TargetColumn>>,
               test |-> psplit.columns \o <<TargetColumn>>]
    /\ UNCHANGED <<has_date, cframe, pcols, pyears, psplit, manifest>>
    /\ PipeFrameOther

-----------------------------------------------------------------------------
(***************************************************************************)
(* Preprocessing: step5_feature_scaling called again and again on one      *)
(* TMDBDataPreprocessor object. A dataset keeps the scaled column           *)
(* popularity and the encoded column rating_tier. A scaled value is kept as *)
(* the value with the sums the scaler was fitted on: it stands for          *)
(* (x - sum/n) / sqrt(sumsq/n - (sum/n)^2).                                  *)
(***************************************************************************)

TierLabels == {"High", "Low"}

\* np.unique orders the classes of a LabelEncoder as strings
LabelOrder == <<"Excellent", "High", "Low", "Medium">>

CategoricalColumns == {"rating_tier"}

ScaleRows == {[rating_tier |-> l, popularity |-> q] : l \in TierLabels, q \in Popularities}

ScaleDatasets == UNION {[1..n -> ScaleRows] : n \in 1..MaxScaleRows}

\* self.scaler = StandardScaler()
Unfitted == [fitted |-> FALSE, n |-> 0, sum |-> 0, sumsq |-> 0]

\* self.label_encoders = {}
NoEncoders == [c \in CategoricalColumns |-> [made |-> FALSE, classes |-> <<>>]]

NoOutput == [outcome |-> "none_yet", scaled |-> <<>>, encoded |-> <<>>]

ScaleFrameOther ==
    UNCHANGED <<serveVars, regVars, cleanVars, pipeVars, featVars, crawlVars, trainVars,
                lastVars>>

RECURSIVE SumSeq(_)
SumSeq(s) == IF s = <<>> THEN 0 ELSE s[1] + SumSeq(Tail(s))

\* StandardScaler.fit: mean_ and var_ are those of the values given
ScalerFit(vals) ==
    [fitted |-> TRUE, n |-> Len(vals), sum |-> SumSeq(vals),
     sumsq |-> SumSeq([i \in 1..Len(vals) |-> vals[i] * vals[i]])]

\* StandardScaler.transform of one value
ScalerTransform(sc, x) == [x |-> x, n |-> sc.n, sum |-> sc.sum, sumsq |-> sc.sumsq]

EncoderKeepFitted(old, vals) ==
    IF old.made THEN old
    ELSE [made |-> TRUE, classes |-> SelectSeq(LabelOrder, LAMBDA l : l \in Range(vals))]

\* lines 247-249: the encoder of the column is made when the dict has none, and
\* fit_transform fits it again on the values of this call
EncoderAfterFit(old, vals) ==
    [made |-> TRUE, classes |-> SelectSeq(LabelOrder, LAMBDA l : l \in Range(vals))]

\* the code of a label: its place in classes_, from 0 (-1: not a class, which raises)
EncoderTransform(enc, l) ==
    IF l \in Range(enc.classes)
    THEN (CHOOSE i \in 1..Len(enc.classes) : enc.classes[i] = l) - 1
    ELSE -1

\* step5_feature_scaling on the dataset d by an object whose scaler is sc and
\* whose encoders are le: the object afterwards and the values produced
Step5Result(sc, le, d) ==
    LET pops == [i \in 1..Len(d) |-> d[i].popularity]
        tiers == [i \in 1..Len(d) |-> d[i].rating_tier]
    IN  IF Cardinality(Range(pops)) <= 2
        THEN [scaler |-> Unfitted, label_encoders |-> le,
              out |-> [outcome |-> "raised", scaled |-> <<>>, encoded |-> <<>>]]
        ELSE LET fit == ScalerFit(pops)
                 enc == EncoderAfterFit(le["rating_tier"], tiers)
                 codes == [i \in 1..Len(d) |-> EncoderTransform(enc, tiers[i])]
             IN  [scaler |-> fit,
                  label_encoders |-> [le EXCEPT !["rating_tier"] = enc],
                  out |-> IF \E i \in 1..Len(d) : codes[i] = -1
                          THEN [outcome |-> "raised", scaled |-> <<>>, encoded |-> <<>>]
                          ELSE [outcome |-> "frame",
                                scaled |-> [i \in 1..Len(d) |-> ScalerTransform(fit, pops[i])],
                                encoded |-> codes]]

\* one call of step5_feature_scaling on the object
Step5FeatureScaling ==
    /\ \E d \in ScaleDatasets :
        LET r == Step5Result(scaler, label_encoders, d)
        IN  /\ scaler' = r.scaler
            /\ label_encoders' = r.label_encoders
            /\ scale_in' = d
            /\ scale_out' = r.out
    /\ enc_before' = label_encoders
    /\ ncalls' = Min(ncalls + 1, 2)
    /\ ScaleFrameOther

-----------------------------------------------------------------------------
(***************************************************************************)
(* Preprocessing: step3_feature_engineering on one row: the genre features  *)
(* and the rating tier (both are computed row by row)                       *)
(***************************************************************************)

\* major_genres (lines 121-127) with the column each genre gets (line 130)
major_genres ==
    (28 :> "is_action") @@ (12 :> "is_adventure") @@ (16 :> "is_animation")
    @@ (35 :> "is_comedy") @@ (80 :> "is_crime") @@ (99 :> "is_documentary")
    @@ (18 :> "is_drama") @@ (10751 :> "is_family") @@ (14 :> "is_fantasy")
    @@ (36 :> "is_history") @@ (27 :> "is_horror") @@ (10402 :> "is_music")
    @@ (9648 :> "is_mystery") @@ (10749 :> "is_romance")
    @@ (878 :> "is_science_fiction") @@ (53 :> "is_thriller")
    @@ (10752 :> "is_war") @@ (37 :> "is_western")

GenreFlags == {major_genres[g] : g \in DOMAIN major_genres}

\* the genre ids that occur in the rows tried: three major genres and an id
\* that is none
SampleGenreIds == {28, 12, 18, 999}

GenreLists == UNION {[1..n -> SampleGenreIds] : n \in 0..MaxGenres}

\* a genre_ids cell: a list, a text that spells a list ("[28, 12]"), a text
\* that is no JSON, a text that spells a JSON number ("28"), or nothing
GenreCells ==
    {[t |-> k, l |-> l] : k \in {"list", "text_list"}, l \in GenreLists}
    \cup {[t |-> k, l |-> <<>>] : k \in {"text_bad", "text_scalar", "missing"}}

\* the vote_average values tried, in tenths: 0.0 to 10.5
FeatRatings == 0..105

NoRow == [vote_average |-> 0, genre_ids |-> [t |-> "none", l |-> <<>>]]

NoFeatures == [outcome |-> "none_yet"]

FeatFrameOther ==
    UNCHANGED <<serveVars, regVars, cleanVars, pipeVars, scaleVars, crawlVars, trainVars,
                lastVars>>

\* parse_genre_ids (lines 105-114): what the cell becomes
ParseGenreIds(c) ==
    IF c.t \in {"list", "text_list"} THEN [is_list |-> TRUE, l |-> c.l]
    ELSE IF c.t = "text_scalar" THEN [is_list |-> FALSE, l |-> <<>>]
    ELSE [is_list |-> TRUE, l |-> <<>>]

GenreFlagPrimaryOnly(g, x) == IF x # <<>> /\ x[1] = g THEN 1 ELSE 0

\* lambda x: 1 if genre_id in x else 0
GenreFlag(g, x) == IF g \in Range(x) THEN 1 ELSE 0

\* bins=[0, 5, 6.5, 8, 10] in tenths, and the labels
TierBins == <<0, 50, 65, 80, 100>>

TierNames == <<"Low", "Medium", "High", "Excellent">>

RatingTierLeftClosed(va) ==
    IF \E i \in 1..Len(TierNames) : TierBins[i] <= va /\ va < TierBins[i + 1]
    THEN TierNames[CHOOSE i \in 1..Len(TierNames) : TierBins[i] <= va /\ va < TierBins[i + 1]]
    ELSE "NaN"

\* pd.cut(df['vote_average'], bins, labels): intervals open on the left and
\* closed on the right; a value in none of them gets no tier
RatingTier(va) ==
    IF \E i \in 1..Len(TierNames) : TierBins[i] < va /\ va <= TierBins[i + 1]
    THEN TierNames[CHOOSE i \in 1..Len(TierNames) : TierBins[i] < va /\ va <= TierBins[i + 1]]
    ELSE "NaN"

\* step3_feature_engineering, lines 103-132 and 148-150, on the row; len() of
\* a parsed value that is no list raises TypeError
Step3Row ==
    /\ fpc = "input"
    /\ fpc' = "done"
    /\ LET parsed == ParseGenreIds(frow.genre_ids)
           x == parsed.l
       IN  feat' = IF ~parsed.is_list
                   THEN [outcome |-> "raised"]
                   ELSE [outcome |-> "row",
                         primary_genre |-> IF Len(x) > 0 THEN x[1] ELSE 0,
                         genre_count |-> Len(x),
                         flags |-> [f \in GenreFlags |->
                                      GenreFlag(CHOOSE g \in DOMAIN major_genres :
                                                    major_genres[g] = f, x)],
                         rating_tier |-> RatingTier(frow.vote_average)]
    /\ UNCHANGED frow
    /\ FeatFrameOther

-----------------------------------------------------------------------------
(***************************************************************************)
(* Crawler: TMDBCrawler.get_bulk_popular_movies(start_page, end_page) and   *)
(* TestDataCrawler.collect_test_popular_extended (pages 21 to 30), one page *)
(* request per step                                                         *)
(***************************************************************************)

Crawlers == {"TMDBCrawler", "TestDataCrawler"}

\* what a page request can meet: 200 with n records, 200 with no record, a
\* status other than 200, requests.get raising (no network), and a 200 whose
\* body is no JSON or has no "results"
PageAnswers ==
    {[kind |-> "ok", n |-> n] : n \in 1..MaxPerPage}
    \cup {[kind |-> k, n |-> 0] : k \in {"ok_empty", "non200", "net_error", "bad_body"}}

\* the fixed ten-page range is tried with one record per page and without the
\* answers that differ from these only in the line that raises
AnswersFor(c) ==
    IF c = "TMDBCrawler" THEN PageAnswers
    ELSE {a \in PageAnswers : a.kind \in {"non200", "net_error"} \/ (a.kind = "ok" /\ a.n = 1)}

CrawlFrameOther ==
    UNCHANGED <<serveVars, regVars, cleanVars, pipeVars, scaleVars, featVars, trainVars,
                lastVars>>

\* get_popular_movies(page): nothing in it or in the loop catches an exception
FetchRaises(a) == a.kind \in {"net_error", "bad_body"}

\* the records of a page that was answered
Records(p, a) == [k \in 1..a.n |-> [page |-> p, k |-> k]]

\* one pass of the loop: get_popular_movies(page), then movies.extend
CrawlPage ==
    /\ kpc = "crawling"
    /\ page <= end_page
    /\ \E a \in AnswersFor(crawler) :
        /\ requested' = Append(requested, page)
        /\ fetched' = Append(fetched, a)
        /\ IF FetchRaises(a)
           THEN kpc' = "raised" /\ UNCHANGED <<page, movies>>
           ELSE /\ movies' = movies \o Records(page, a)
                /\ page' = page + 1
                /\ UNCHANGED kpc
    /\ UNCHANGED <<crawler, start_page, end_page>>
    /\ CrawlFrameOther

\* the range is exhausted: return movies
CrawlReturn ==
    /\ kpc = "crawling"
    /\ page > end_page
    /\ kpc' = "returned"
    /\ UNCHANGED <<crawler, start_page, end_page, page, movies, requested, fetched>>
    /\ CrawlFrameOther

-----------------------------------------------------------------------------
(***************************************************************************)
(* Training: train_model of model/train.py and model/train_mlflow.py       *)
(***************************************************************************)

Scripts == {"train.py", "train_mlflow.py"}

\* the columns a train CSV may hold, and the manifests tried against it
TrainCsvColumns == {Col("popularity", "scaled"), Col("release_year", "scaled"), TargetColumn}

Manifests ==
    {<<>>, <<Col("popularity", "scaled")>>, <<Col("release_year", "scaled")>>,
     <<Col("popularity", "scaled"), Col("release_year", "scaled")>>}

TrainFrameOther ==
    UNCHANGED <<serveVars, regVars, cleanVars, pipeVars, scaleVars, featVars, crawlVars,
                lastVars>>

\* the statements of the try block, in order; only train.py saves the model
TrainSteps(s) ==
    IF s = "train.py"
    THEN <<"load_data", "select", "log_params", "fit", "log_model", "save_model">>
    ELSE <<"load_data", "select", "log_params", "fit", "log_model">>

StepIndex(s, step) == CHOOSE i \in 1..Len(TrainSteps(s)) : TrainSteps(s)[i] = step

\* what follows a statement that did not raise
StepAfter(s, step) ==
    IF StepIndex(s, step) = Len(TrainSteps(s)) THEN "return"
    ELSE TrainSteps(s)[StepIndex(s, step) + 1]

\* missing = [f for f in feature_names if f not in train_df.columns]
MissingFeatures(fn, c) == {fn[i] : i \in 1..Len(fn)} \ c

\* train_df[feature_names], train_df[target_column]: KeyError on an absent column
\* (train_mlflow.py raises the KeyError itself when a feature is missing)
SelectRaises(fn, c) == MissingFeatures(fn, c) # {} \/ TargetColumn \notin c

\* mlflow.end_run(status): acts on the run on top of the stack of active runs,
\* and does nothing when the stack is empty
EndRunStatus(active, cur, status) == IF active THEN status ELSE cur

ExceptStatusFinished == "FINISHED"

\* the status the except branch ends the run with
ExceptStatus == "FAILED"

\* the status ActiveRun.__exit__ ends the run with
ExitStatus(exc) == IF exc THEN "FAILED" ELSE "FINISHED"

\* one statement of the try block: it raises into the except branch or falls through
TrainStep(step, raises) ==
    /\ tpc = step
    /\ calls' = Append(calls, step)
    /\ IF raises
       THEN failed_step' = step /\ tpc' = "except"
       ELSE tpc' = StepAfter(script, step) /\ UNCHANGED failed_step
    /\ UNCHANGED <<script, train_columns, feature_names, run_status, active_run>>
    /\ TrainFrameOther

\* with mlflow.start_run(run_name=run_name) as run
StartRun ==
    /\ tpc = "start_run"
    /\ run_status' = "RUNNING"
    /\ active_run' = TRUE
    /\ tpc' = "load_data"
    /\ UNCHANGED <<script, train_columns, feature_names, calls, failed_step>>
    /\ TrainFrameOther

\* train_df = load_data(train_filepath)
TrainLoadData == \E raises \in BOOLEAN : TrainStep("load_data", raises)

\* X_train = train_df[feature_names]; y_train = train_df[target_column]
SelectColumns == TrainStep("select", SelectRaises(feature_names, train_columns))

\* mlflow.log_params(xgb_params)
LogParams == \E raises \in BOOLEAN : TrainStep("log_params", raises)

\* model.fit(X_train, y_train)
Fit == \E raises \in BOOLEAN : TrainStep("fit", raises)

\* mlflow.xgboost.log_model(...)
LogModel == \E raises \in BOOLEAN : TrainStep("log_model", raises)

\* save_model(model, model_full_path), train.py only
SaveModel == \E raises \in BOOLEAN : TrainStep("save_model", raises)

\* except Exception: mlflow.end_run(status="FAILED"), then raise
ExceptBranch ==
    /\ tpc = "except"
    /\ run_status' = EndRunStatus(active_run, run_status, ExceptStatus)
    /\ active_run' = FALSE
    /\ tpc' = "reraise"
    /\ UNCHANGED <<script, train_columns, feature_names, calls, failed_step>>
    /\ TrainFrameOther

\* leaving the with block, by return or by the exception raised again:
\* ActiveRun.__exit__ calls end_run with the status the exit decides
WithExit ==
    /\ tpc \in {"return", "reraise"}
    /\ run_status' = EndRunStatus(active_run, run_status, ExitStatus(tpc = "reraise"))
    /\ active_run' = FALSE
    /\ tpc' = IF tpc = "reraise" THEN "raised" ELSE "returned"
    /\ UNCHANGED <<script, train_columns, feature_names, calls, failed_step>>
    /\ TrainFrameOther

-----------------------------------------------------------------------------
(***************************************************************************)
(* Registration script: __main__ of model/register_mlflow.py with          *)
(* find_best_run_id; register_and_promote_model is the registry block above *)
(***************************************************************************)

RmseValues == {1, 2}

\* a run of the experiment: its rmse metric, if it logged one, and whether it is
\* active (not deleted)
RunRecords ==
    {[has |-> TRUE, rmse |-> v, active |-> a] : v \in RmseValues, a \in BOOLEAN}
    \cup {[has |-> FALSE, rmse |-> 0, active |-> a] : a \in BOOLEAN}

RunLists == UNION {[1..n -> RunRecords] : n \in 0..MaxRuns}

\* the registries the script is tried on
MainRegistries == {r \in Registries : Len(r) <= 1}

MainFrameOther == UNCHANGED <<serveVars, cleanVars, laterVars, loadVars, dagVars>>

\* run_view_type=ViewType.ACTIVE_ONLY
ActiveRuns(rs) == {i \in DOMAIN rs : rs[i].active}

FirstRowsDescending(rs) ==
    LET a == ActiveRuns(rs)
        w == {i \in a : rs[i].has}
    IN  IF w # {} THEN {i \in w : \A j \in w : rs[j].rmse <= rs[i].rmse} ELSE a

\* order_by=["metrics.rmse ASC"]: the runs that can be the first row. Runs
\* without the metric sort after the others; the store orders equal values
FirstRows(rs) ==
    LET a == ActiveRuns(rs)
        w == {i \in a : rs[i].has}
    IN  IF w # {} THEN {i \in w : \A j \in w : rs[i].rmse <= rs[j].rmse} ELSE a

\* client.search_runs(..., max_results=1): the results the store can give
SearchRuns(rs) ==
    IF ActiveRuns(rs) = {} THEN {<<>>} ELSE {<<i>> : i \in FirstRows(rs)}

\* run_id_to_register = args.run_id
MainArgs ==
    /\ mpc = "start"
    /\ run_id_to_register' = run_id_arg
    /\ mpc' = IF run_id_arg = 0 THEN "find" ELSE "call"
    /\ UNCHANGED <<run_id_arg, experiment, runs, search, find_error>>
    /\ UNCHANGED regVars
    /\ MainFrameOther

\* find_best_run_id(client, mlflow_experiment_name, "rmse"); what it raises is
\* caught at line 130 and the script exits with 1
FindBestRunId ==
    /\ mpc = "find"
    /\ IF ~experiment
       THEN /\ find_error' = "no_experiment"
            /\ mpc' = "exit1"
            /\ UNCHANGED <<search, run_id_to_register>>
       ELSE \E found \in SearchRuns(runs) :
            /\ search' = found
            /\ IF found = <<>>
               THEN /\ find_error' = "no_runs"
                    /\ mpc' = "exit1"
                    /\ UNCHANGED run_id_to_register
               ELSE IF ~runs[found[1]].has
               THEN \* best_run.data.metrics[metric_name] in the log line
                    /\ find_error' = "KeyError"
                    /\ mpc' = "exit1"
                    /\ UNCHANGED run_id_to_register
               ELSE /\ run_id_to_register' = found[1]
                    /\ mpc' = "call"
                    /\ UNCHANGED find_error
    /\ UNCHANGED <<run_id_arg, experiment, runs>>
    /\ UNCHANGED regVars
    /\ MainFrameOther

\* register_and_promote_model(best_run_id=run_id_to_register, ...) is entered
MainCall ==
    /\ mpc = "call"
    /\ rpc = "off"
    /\ rpc' = PromotionSteps[1]
    /\ mpc' = "in_call"
    /\ UNCHANGED <<reg, reg0, newver, todo, obs>>
    /\ UNCHANGED <<run_id_arg, experiment, runs, search, run_id_to_register, find_error>>
    /\ MainFrameOther

\* the call returned (the script ends) or raised (sys.exit(1))
MainExit ==
    /\ mpc = "in_call"
    /\ rpc \in {"returned", "raised"}
    /\ mpc' = IF rpc = "returned" THEN "exit0" ELSE "exit1"
    /\ UNCHANGED <<run_id_arg, experiment, runs, search, run_id_to_register, find_error>>
    /\ UNCHANGED regVars
    /\ MainFrameOther

-----------------------------------------------------------------------------
(***************************************************************************)
(* The DAG: one run of movie_pipeline_all_scripts, a task attempt per step *)
(***************************************************************************)

\* crawl_task >> preprocess_task >> train_task >> evaluate_task >> register_task >> main_task
TaskChain ==
    <<"preprocessing/crawler.py", "preprocessing/preprocessing.py", "model/train.py",
      "model/evaluate.py", "model/register_mlflow.py", "preprocessing/main.py">>

\* how the work of a script can end: done, failed with the error caught and
\* printed, failed with the error leaving the script
WorkOutcomes == {"ok", "failed_caught", "failed_uncaught"}

\* the return code of a script, from its __main__ block. crawler.py catches
\* every exception of the crawl and prints it; preprocessing.py skips the save
\* when run_full_pipeline returned None; train.py, evaluate.py and
\* register_mlflow.py call sys.exit(1) in their except branch; an exception
\* nothing catches ends the interpreter with 1
ExitCode(s, o) ==
    IF o = "ok" THEN 0
    ELSE IF o = "failed_uncaught" THEN 1
    ELSE IF s \in {"model/train.py", "model/evaluate.py", "model/register_mlflow.py"} THEN 1
    ELSE 0

\* the outcomes a script has: in crawler.py the whole work is inside the try
\* block, in the three model scripts too
OutcomesOf(s) ==
    IF s = "preprocessing/crawler.py" THEN {"ok", "failed_caught"}
    ELSE IF s \in {"model/train.py", "model/evaluate.py", "model/register_mlflow.py"}
    THEN {"ok", "failed_caught"}
    ELSE WorkOutcomes

DagFrameOther == UNCHANGED <<serveVars, regVars, cleanVars, laterVars, mainVars, loadVars>>

\* one attempt of the task at dag_task: run_script(script_name). A missing
\* script raises FileNotFoundError before anything runs; a return code other
\* than 0 raises RuntimeError. A raised attempt is tried again while retries
\* are left, else the run fails and no downstream task starts
RunScript ==
    /\ dag_state = "running"
    /\ dag_task <= Len(TaskChain)
    /\ \E exists \in BOOLEAN, o \in OutcomesOf(TaskChain[dag_task]) :
        LET rc == IF exists THEN ExitCode(TaskChain[dag_task], o) ELSE -1
            raised == (~exists) \/ rc # 0
        IN  /\ (~exists) => o = "ok"
            /\ attempts' = Append(attempts,
                                  [task |-> dag_task, try |-> try_number, exists |-> exists,
                                   work |-> IF exists THEN o ELSE "not_run",
                                   returncode |-> rc, raised |-> raised])
            /\ IF ~raised
               THEN dag_task' = dag_task + 1 /\ try_number' = 1 /\ UNCHANGED dag_state
               ELSE IF try_number <= Retries
               THEN try_number' = try_number + 1 /\ UNCHANGED <<dag_task, dag_state>>
               ELSE dag_state' = "failed" /\ UNCHANGED <<dag_task, try_number>>
    /\ DagFrameOther

\* every task of the chain has succeeded
DagRunSucceeds ==
    /\ dag_state = "running"
    /\ dag_task > Len(TaskChain)
    /\ dag_state' = "success"
    /\ UNCHANGED <<dag_task, try_number, attempts>>
    /\ DagFrameOther

-----------------------------------------------------------------------------
(***************************************************************************)
(* Specifications                                                          *)
(***************************************************************************)

ServeIdle ==
    /\ svc = FALSE /\ is_ready = FALSE /\ is_model_loaded = FALSE /\ model_version = 0
    /\ is_data_loaded = FALSE /\ data = <<>> /\ predictions = NoPredictions
    /\ init_result = NoResult /\ pred_result = NoResult /\ resp = NoResponse
    /\ npredict = 0

RegIdle ==
    /\ reg = <<>> /\ reg0 = <<>> /\ rpc = "off" /\ newver = 0 /\ todo = {}
    /\ obs = NoObservation

CleanIdle ==
    /\ cols = {} /\ rows = <<>> /\ cpc = "off" /\ deduped = <<>> /\ cleaned = NoFrame
    /\ steps = <<>> /\ result = "none_yet"

PipeIdle ==
    /\ has_date = FALSE /\ cframe = <<>> /\ ppc = "off" /\ pcols = <<>> /\ pyears = <<>>
    /\ psplit = NoSplit /\ manifest = <<>> /\ csv = NoCsv

ScaleIdle ==
    /\ scaler = Unfitted /\ label_encoders = NoEncoders /\ scale_in = <<>>
    /\ scale_out = NoOutput /\ enc_before = NoEncoders /\ ncalls = 0

FeatIdle == frow = NoRow /\ feat = NoFeatures /\ fpc = "off"

CrawlIdle ==
    /\ crawler = "none" /\ start_page = 0 /\ end_page = 0 /\ page = 0
    /\ movies = <<>> /\ requested = <<>> /\ fetched = <<>> /\ kpc = "off"

TrainIdle ==
    /\ script = "none" /\ train_columns = {} /\ feature_names = <<>> /\ tpc = "off"
    /\ run_status = "none" /\ active_run = FALSE /\ calls = <<>> /\ failed_step = "none"

LaterIdle == PipeIdle /\ ScaleIdle /\ FeatIdle /\ CrawlIdle /\ TrainIdle

MainIdle ==
    /\ run_id_arg = 0 /\ experiment = FALSE /\ runs = <<>> /\ search = <<>>
    /\ run_id_to_register = 0 /\ mpc = "off" /\ find_error = "none"

LoadIdle == lpc = "off" /\ model_check = [exists |-> FALSE, version |-> 0] /\ loaded_model = 0

DagIdle == dag_task = 0 /\ try_number = 0 /\ attempts = <<>> /\ dag_state = "off"

LastIdle == MainIdle /\ LoadIdle /\ DagIdle

\* the serving process: the startup hook, then requests
ServeInit == pc = "boot" /\ ServeIdle /\ RegIdle /\ CleanIdle /\ LaterIdle /\ LastIdle

ServeNext ==
    \/ StartupConstruct \/ StartupInitialize \/ StartupPredictAll
    \/ ReqRoot \/ ReqHealth \/ ReqPredictions \/ ReqTopMovies \/ ReqStats
    \/ ReqPredictStatus

ServeSpec == ServeInit /\ [][ServeNext]_vars

\* a SimplePredictionService object, just built, under any sequence of calls
ApiInit ==
    /\ pc = "api"
    /\ svc = TRUE /\ is_ready = FALSE /\ is_model_loaded = FALSE /\ model_version = 0
    /\ is_data_loaded = FALSE /\ data = <<>> /\ predictions = NoPredictions
    /\ init_result = NoResult /\ pred_result = NoResult /\ resp = NoResponse
    /\ npredict = 0
    /\ RegIdle /\ CleanIdle /\ LaterIdle /\ LastIdle

ApiNext ==
    \/ ApiInitialize \/ ApiPredictAll
    \/ ReqRoot \/ ReqHealth \/ ReqPredictions \/ ReqTopMovies \/ ReqStats
    \/ ReqPredictStatus

ApiSpec == ApiInit /\ [][ApiNext]_vars

\* one call of register_and_promote_model on any registry, with a reader
RegInit ==
    /\ reg \in Registries /\ reg0 = reg /\ rpc = PromotionSteps[1]
    /\ newver = 0 /\ todo = {} /\ obs = NoObservation
    /\ lpc = "check" /\ model_check = [exists |-> FALSE, version |-> 0] /\ loaded_model = 0
    /\ pc = "off" /\ ServeIdle /\ CleanIdle /\ LaterIdle /\ MainIdle /\ DagIdle

RegNext ==
    \/ RegRegister \/ RegSearch \/ RegDemote \/ RegPromote \/ ReaderLookup
    \/ LoaderCheck \/ LoaderLoad

RegSpec == RegInit /\ [][RegNext]_vars

\* one run of the preprocessing pipeline on any document
CleanInit ==
    /\ cols \in SUBSET RequiredColumns /\ rows = <<>> /\ cpc = "input"
    /\ deduped = <<>> /\ cleaned = NoFrame /\ steps = <<>> /\ result = "none_yet"
    /\ pc = "off" /\ ServeIdle /\ RegIdle /\ LaterIdle /\ LastIdle

CleanNext == AddRow \/ RunFullPipeline \/ Step1ParseError

CleanSpec == CleanInit /\ [][CleanNext]_vars

\* steps 3 to 6 of one run of the pipeline on any cleaned frame, then the save
PipeInit ==
    /\ has_date \in BOOLEAN /\ cframe = <<>> /\ ppc = "input" /\ pcols = <<>>
    /\ pyears = <<>> /\ psplit = NoSplit /\ manifest = <<>> /\ csv = NoCsv
    /\ pc = "off" /\ ServeIdle /\ RegIdle /\ CleanIdle
    /\ ScaleIdle /\ FeatIdle /\ CrawlIdle /\ TrainIdle /\ LastIdle

PipeNext ==
    \/ PipeAddRow \/ PipeStep3 \/ PipeStep4 \/ PipeStep5 \/ PipeStep6
    \/ SaveProcessedData

PipeSpec == PipeInit /\ [][PipeNext]_vars

\* a TMDBDataPreprocessor object, just built, scaling one dataset after another
ScaleInit ==
    /\ scaler = Unfitted /\ label_encoders = NoEncoders /\ scale_in = <<>>
    /\ scale_out = NoOutput /\ enc_before = NoEncoders /\ ncalls = 0
    /\ pc = "off" /\ ServeIdle /\ RegIdle /\ CleanIdle
    /\ PipeIdle /\ FeatIdle /\ CrawlIdle /\ TrainIdle /\ LastIdle

ScaleNext == Step5FeatureScaling

ScaleSpec == ScaleInit /\ [][ScaleNext]_vars

\* step 3 on any one row
FeatInit ==
    /\ frow \in {[vote_average |-> va, genre_ids |-> c] : va \in FeatRatings, c \in GenreCells}
    /\ feat = NoFeatures /\ fpc = "input"
    /\ pc = "off" /\ ServeIdle /\ RegIdle /\ CleanIdle
    /\ PipeIdle /\ ScaleIdle /\ CrawlIdle /\ TrainIdle /\ LastIdle

FeatNext == Step3Row

FeatSpec == FeatInit /\ [][FeatNext]_vars

\* one crawl: any short range for TMDBCrawler, pages 21 to 30 for TestDataCrawler
CrawlInit ==
    /\ crawler \in Crawlers
    /\ IF crawler = "TMDBCrawler"
       THEN /\ start_page \in 1..2
            /\ end_page \in (start_page - 1)..(start_page + MaxPages - 1)
       ELSE start_page = TestFirstPage /\ end_page = TestLastPage
    /\ page = start_page
    /\ movies = <<>> /\ requested = <<>> /\ fetched = <<>> /\ kpc = "crawling"
    /\ pc = "off" /\ ServeIdle /\ RegIdle /\ CleanIdle
    /\ PipeIdle /\ ScaleIdle /\ FeatIdle /\ TrainIdle /\ LastIdle

CrawlNext == CrawlPage \/ CrawlReturn

CrawlSpec == CrawlInit /\ [][CrawlNext]_vars

\* one call of train_model, of either script, on any train CSV and manifest
TrainInit ==
    /\ script \in Scripts
    /\ train_columns \in SUBSET TrainCsvColumns
    /\ feature_names \in Manifests
    /\ tpc = "start_run" /\ run_status = "none" /\ active_run = FALSE
    /\ calls = <<>> /\ failed_step = "none"
    /\ pc = "off" /\ ServeIdle /\ RegIdle /\ CleanIdle
    /\ PipeIdle /\ ScaleIdle /\ FeatIdle /\ CrawlIdle /\ LastIdle

TrainNext ==
    \/ StartRun \/ TrainLoadData \/ SelectColumns \/ LogParams \/ Fit \/ LogModel \/ SaveModel
    \/ ExceptBranch \/ WithExit

TrainSpec == TrainInit /\ [][TrainNext]_vars

\* one run of the registration script on any tracking store and registry
MainInit ==
    /\ run_id_arg \in 0..MaxRuns
    /\ experiment \in BOOLEAN
    /\ runs \in RunLists
    /\ ~experiment => runs = <<>>
    /\ search = <<>> /\ run_id_to_register = 0 /\ mpc = "start" /\ find_error = "none"
    /\ reg \in MainRegistries /\ reg0 = reg /\ rpc = "off"
    /\ newver = 0 /\ todo = {} /\ obs = NoObservation
    /\ pc = "off" /\ ServeIdle /\ CleanIdle /\ LaterIdle /\ LoadIdle /\ DagIdle

MainNext ==
    \/ MainArgs \/ FindBestRunId \/ MainCall
    \/ RegRegister \/ RegSearch \/ RegDemote \/ RegPromote
    \/ MainExit

MainSpec == MainInit /\ [][MainNext]_vars

\* one run of the DAG
DagInit ==
    /\ dag_task = 1 /\ try_number = 1 /\ attempts = <<>> /\ dag_state = "running"
    /\ pc = "off" /\ ServeIdle /\ RegIdle /\ CleanIdle /\ LaterIdle /\ MainIdle /\ LoadIdle

DagNext == RunScript \/ DagRunSucceeds

DagSpec == DagInit /\ [][DagNext]_vars

Init == ServeInit

Next == ServeNext

Spec == ServeSpec

-----------------------------------------------------------------------------
(***************************************************************************)
(* Properties: serving                                                     *)
(***************************************************************************)

\* C1: when initialization failed at startup (the service could not be built, or
\* initialize() reported a failure for the registry, the Production model or the
\* CSV), the service is not ready in any later state, and every answer of
\* /predictions, /top-movies and /stats is a 503 error without data.
C1_InitFailureGives503 ==
    (pc = "serving" /\ ~init_result.success) =>
        /\ ~is_ready
        /\ ~predictions.set
        /\ resp.endpoint \in DataEndpoints =>
              (resp.status = 503 /\ resp.body = [kind |-> "error"])

\* the CSV was missing after the model had been loaded, and /top-movies was asked
C1_Witness ==
    /\ pc = "serving"
    /\ init_result.called /\ init_result.cause = "csv_missing"
    /\ is_model_loaded
    /\ resp.endpoint = "/top-movies" /\ resp.status = 503

\* C2: the service status takes the two values initializing and ready only, and
\* no call of initialize() or predict_all() and no request, in any order and
\* with any outcome of the registry and of the file system, takes is_ready
\* from true back to false.
C2_ReadyIsTerminal ==
    /\ [](resp.body.kind = "root" =>
            resp.body.service_status \in {"initializing", "ready"})
    /\ [][(resp' # resp /\ resp'.body.kind = "root") =>
            resp'.body.service_status = IF is_ready THEN "ready" ELSE "initializing"]_vars
    /\ [][is_ready => is_ready']_vars

\* the service is ready and a later initialize() failed on reading the CSV
C2_Witness ==
    /\ is_ready
    /\ init_result.called /\ ~init_result.success
    /\ init_result.cause = "csv_read_fail"

\* C3: the prediction cache is written at most once, and only by the startup
\* hook; once the hook has ended, no step (every step is then a request to one
\* of the six endpoints) changes the cache, the loaded model or the loaded data.
C3_HandlersReadOnly ==
    /\ [](npredict <= 1)
    /\ [][predictions' # predictions => (pc = "initialized" /\ pc' = "serving")]_vars
    /\ [][pc = "serving" =>
            UNCHANGED <<predictions, npredict, is_ready, is_model_loaded,
                        model_version, is_data_loaded, data>>]_vars

\* the cache was written once, in an order that is not the rating order, and
\* /top-movies has been answered from it
C3_Witness ==
    /\ pc = "serving" /\ npredict = 1
    /\ predictions.predictions = <<6400, 9000>>
    /\ resp.endpoint = "/top-movies" /\ resp.status = 200

\* the cached rating of a movie
CachedRating(id) ==
    predictions.predictions[CHOOSE i \in 1..Len(predictions.movie_ids) :
                                predictions.movie_ids[i] = id]

\* C4: a 200 answer of /top-movies for the limit N lists min(N, total) movies of
\* the cache, each once, with ranks 1, 2, ... and its cached rating rounded to
\* two decimals, in non-increasing order of rating, and no movie left out is
\* rated above a listed one; for the cache {1: 8.1, 2: 6.4, 3: 9.0} and limit 2
\* the list is movie 3 at rank 1 and movie 1 at rank 2.
C4_TopMovies ==
    (resp.endpoint = "/top-movies" /\ resp.status = 200) =>
        LET top == resp.body.top_movies
            total == Len(predictions.predictions)
            listed == {top[i].movie_id : i \in 1..Len(top)}
        IN  /\ Len(top) = Min(resp.body.limit, total)
            /\ resp.body.showing_count = Len(top)
            /\ resp.body.total_movies = total
            /\ listed \subseteq Range(predictions.movie_ids)
            /\ Cardinality(listed) = Len(top)
            /\ \A i \in 1..Len(top) :
                  /\ top[i].rank = i
                  /\ top[i].predicted_rating = Round2(CachedRating(top[i].movie_id))
            /\ \A i, j \in 1..Len(top) :
                  i < j => /\ CachedRating(top[i].movie_id) >= CachedRating(top[j].movie_id)
                           /\ top[i].predicted_rating >= top[j].predicted_rating
            /\ \A m \in Range(predictions.movie_ids) \ listed : \A l \in listed :
                  CachedRating(m) <= CachedRating(l)
            /\ (/\ predictions.movie_ids = <<1, 2, 3>>
                /\ predictions.predictions = <<8100, 6400, 9000>>
                /\ resp.body.limit = 2)
               => top = <<[rank |-> 1, movie_id |-> 3, predicted_rating |-> 900],
                          [rank |-> 2, movie_id |-> 1, predicted_rating |-> 810]>>

\* the cache {1: 8.1, 2: 6.4, 3: 9.0} was asked for its top 2
C4_Witness ==
    /\ predictions.movie_ids = <<1, 2, 3>>
    /\ predictions.predictions = <<8100, 6400, 9000>>
    /\ resp.endpoint = "/top-movies" /\ resp.status = 200
    /\ resp.body.limit = 2
    /\ Len(resp.body.top_movies) = 2

-----------------------------------------------------------------------------
(***************************************************************************)
(* Properties: registry                                                    *)
(***************************************************************************)

\* C5: whatever the registry held before the call, two or more versions in
\* Production included, when register_and_promote_model has returned exactly
\* one version holds Production, and it is the version registered by the call.
C5_OneProductionAfterReturn ==
    rpc = "returned" =>
        /\ ProdSet(reg) = {newver}
        /\ newver = Len(reg0) + 1
        /\ \A v \in DOMAIN reg0 : reg[v] = IF reg0[v] = "Production" THEN "None" ELSE reg0[v]

\* the call returned on a registry that had two or more versions in Production
C5_Witness ==
    /\ rpc = "returned"
    /\ Cardinality(ProdSet(reg0)) >= 2

-----------------------------------------------------------------------------
(***************************************************************************)
(* Properties: preprocessing                                               *)
(***************************************************************************)

\* row i is the first row of the document with its identifier
FirstOccurrence(i) == \A j \in 1..(i - 1) : rows[j].id # rows[i].id

\* the number of rows that repeat an identifier seen earlier
Repeats == Cardinality({i \in 1..Len(rows) : ~FirstOccurrence(i)})

\* C7: no row of the frame Clean returns has a vote_average outside (0, 10] or a
\* vote_count below 10.
C7_CleanRange ==
    cleaned.outcome = "frame" =>
        \A i \in 1..Len(cleaned.frame) :
            LET r == cleaned.frame[i]
            IN  /\ r.vote_average.t = "num"
                /\ 0 < r.vote_average.v /\ r.vote_average.v <= 100
                /\ r.vote_count.t = "num"
                /\ r.vote_count.v >= 10

\* Clean returned rows of a document that also had a vote_average above 10, a
\* vote_average of 0 and a vote_count below 10
C7_Witness ==
    /\ cleaned.outcome = "frame" /\ cleaned.frame # <<>>
    /\ \E i \in 1..Len(rows) : rows[i].vote_average = Num(105)
    /\ \E i \in 1..Len(rows) : rows[i].vote_count = Num(5) \/ rows[i].vote_average = Num(0)

\* C8: when the document has the id column, the frame after the deduplication
\* has N - D rows, N the rows of the document and D those that repeat an earlier
\* identifier, and its rows are the first rows of their identifiers, unchanged
\* and in document order.
C8_DedupeKeepsFirst ==
    (cpc = "done" /\ "id" \in cols) =>
        /\ Len(deduped) = Len(rows) - Repeats
        /\ \A k \in 1..Len(deduped) :
              /\ deduped[k].ix \in 1..Len(rows)
              /\ deduped[k] = rows[deduped[k].ix]
              /\ FirstOccurrence(deduped[k].ix)
        /\ \A k, l \in 1..Len(deduped) : k < l => deduped[k].ix < deduped[l].ix

\* a document with all columns in which a later row repeats an identifier with
\* other values
C8_Witness ==
    /\ cpc = "done" /\ cols = RequiredColumns
    /\ Repeats >= 1
    /\ \E i, j \in 1..Len(rows) :
          /\ i < j /\ rows[i].id = rows[j].id
          /\ rows[i].vote_average # rows[j].vote_average
    /\ Len(deduped) < Len(rows)

\* a row that passes the range filter with every required field present (a
\* popularity spelled as text counts as present when it is a number)
ValidRow(r) ==
    /\ r.id.t = "num"
    /\ r.vote_average.t = "num" /\ 0 < r.vote_average.v /\ r.vote_average.v <= 100
    /\ r.vote_count.t = "num" /\ r.vote_count.v >= 10
    /\ r.popularity.t \in {"num", "numstr"}

\* C9: the frame Clean returns holds, in document order, exactly the rows that
\* are the first of their identifier and valid (a duplicate is dropped before
\* the range filter looks at it, so a valid repeat of an invalid first row is
\* not kept), with their values; so three rows, two valid ones with the same
\* identifier and a third with vote_count 5, give the first row alone.
C9_CleanExact ==
    cleaned.outcome = "frame" =>
        LET f == cleaned.frame
            keep == {i \in 1..Len(rows) : FirstOccurrence(i) /\ ValidRow(rows[i])}
        IN  /\ {f[k].ix : k \in 1..Len(f)} = keep
            /\ Len(f) = Cardinality(keep)
            /\ \A k, l \in 1..Len(f) : k < l => f[k].ix < f[l].ix
            /\ \A k \in 1..Len(f) :
                  LET r == rows[f[k].ix]
                  IN  /\ f[k].id = r.id
                      /\ f[k].vote_average = r.vote_average
                      /\ f[k].vote_count = r.vote_count
                      /\ f[k].popularity = Num(r.popularity.v)
            /\ (/\ Len(rows) = 3
                /\ rows[1].id = rows[2].id /\ rows[3].id # rows[1].id
                /\ ValidRow(rows[1]) /\ ValidRow(rows[2])
                /\ rows[3].vote_count = Num(5))
               => (Len(f) = 1 /\ f[1].ix = 1)

\* the three-row document: one identifier twice with other values, and a row
\* with vote_count 5
C9_Witness ==
    /\ cleaned.outcome = "frame"
    /\ Len(rows) = 3
    /\ rows[1].id = rows[2].id /\ rows[3].id # rows[1].id
    /\ rows[1].vote_average # rows[2].vote_average
    /\ ValidRow(rows[1]) /\ ValidRow(rows[2])
    /\ rows[3].vote_count = Num(5)
    /\ Len(cleaned.frame) = 1

\* C10: when a required column is absent from a document with at least one
\* record, Clean returns None without raising and run_full_pipeline returns None
\* after steps 1 and 2 alone.
C10_MissingColumnGivesNone ==
    (cpc = "done" /\ rows # <<>> /\ RequiredColumns \ cols # {}) =>
        /\ cleaned.outcome = "None"
        /\ result = "None"
        /\ steps = <<1, 2>>

\* a row with a text that spells no number in one of the three numeric fields
HasText(r) ==
    r.vote_average.t = "str" \/ r.vote_count.t = "str" \/ r.popularity.t = "str"

\* C11: a document that cannot be parsed or that has no record makes step 1
\* fail, so that run_full_pipeline ends in step 1 and step 2 never runs.
C11_NoRowsFailsAtStep1 ==
    (cpc = "done" /\ rows = <<>>) =>
        /\ steps = <<1>>
        /\ result = "raised"

\* C12: when rows of a document with all required columns hold a text in
\* vote_average, vote_count or popularity, Clean raises nothing and returns
\* what it returns for the document without those rows.
C12_TextRowsDropped ==
    (cpc = "done" /\ cols = RequiredColumns /\ \E i \in 1..Len(rows) : HasText(rows[i])) =>
        LET others == SelectSeq(rows, LAMBDA r : ~HasText(r))
            f == cleaned.frame
            g == Clean(cols, others).frame
        IN  /\ cleaned.outcome = "frame"
            /\ Len(f) = Len(g)
            /\ \A k \in 1..Len(f) : f[k].ix = g[k].ix

-----------------------------------------------------------------------------
(***************************************************************************)
(* Properties: preprocessing, steps 3 to 6                                 *)
(***************************************************************************)

\* C13: when the records carry a release date, step 6 of run_full_pipeline
\* takes the time-based branch, never the random one.
C13_DateGivesTimeSplit ==
    (ppc \in {"step6", "saved"} /\ has_date) => psplit.branch = "time"

\* the release years of the frame given to step 6 that are known
KnownYears == SelectSeq(pyears, LAMBDA c : c.t = "num")

\* C14: in the time-based branch the threshold is the 0.8 quantile of the
\* release_year of all rows; every train row has a year at or below it, every
\* test row a year above it, no row is in both, and a row whose year equals the
\* threshold is a train row.
C14_TimeSplitBoundary ==
    psplit.branch = "time" =>
        LET t == psplit.threshold
            n == Len(cframe)
        IN  /\ KnownYears # <<>> =>
                  t = QuantileFifths([i \in 1..Len(KnownYears) |-> KnownYears[i].v], 4)
            /\ \A i \in Range(psplit.train) :
                  i \in 1..n /\ pyears[i].t = "num" /\ 5 * pyears[i].v <= t
            /\ \A i \in Range(psplit.test) :
                  i \in 1..n /\ pyears[i].t = "num" /\ 5 * pyears[i].v > t
            /\ Range(psplit.train) \cap Range(psplit.test) = {}
            /\ \A i \in 1..n :
                  (pyears[i].t = "num" /\ 5 * pyears[i].v = t) => i \in Range(psplit.train)

\* the time-based branch ran on a frame with two release years, and a row sits
\* exactly on the threshold
C14_Witness ==
    /\ psplit.branch = "time"
    /\ \E i, j \in 1..Len(pyears) : pyears[i].t = "num" /\ pyears[j].t = "num"
                                     /\ pyears[i].v < pyears[j].v
    /\ \E i \in Range(psplit.train) : 5 * pyears[i].v = psplit.threshold

\* C15: once a successful run has been saved, the manifest is the header of
\* tmdb_train.csv without its last column, in order, so it is one shorter than
\* the header; it does not name the target; and the target is the last column
\* of tmdb_train.csv and of tmdb_test.csv.
C15_ManifestMatchesTrain ==
    ppc = "saved" =>
        /\ Len(csv.train) >= 1
        /\ Len(manifest) = Len(csv.train) - 1
        /\ manifest = SubSeq(csv.train, 1, Len(csv.train) - 1)
        /\ TargetColumn \notin Range(manifest)
        /\ csv.train[Len(csv.train)] = TargetColumn
        /\ Len(csv.test) = Len(csv.train)
        /\ csv.test[Len(csv.test)] = TargetColumn

\* a saved run whose manifest has a column kept as it was, a scaled one and an
\* encoded one
C15_Witness ==
    /\ ppc = "saved"
    /\ \E i, j, k \in 1..Len(manifest) :
          manifest[i].form = "raw" /\ manifest[j].form = "scaled" /\ manifest[k].form = "encoded"

\* C16: whatever calls came before on the same object, a call of
\* step5_feature_scaling gives the scaled and encoded values (or the error) that
\* a new object gives for the same dataset.
C16_ScaleIsStateless ==
    ncalls >= 1 => scale_out = Step5Result(Unfitted, NoEncoders, scale_in).out

\* a second call, on a dataset with the one label Low, by an object whose
\* encoder had been fitted on High and Low
C16_Witness ==
    /\ ncalls = 2
    /\ enc_before["rating_tier"].classes = <<"High", "Low">>
    /\ scale_out.outcome = "frame"
    /\ \A i \in 1..Len(scale_in) : scale_in[i].rating_tier = "Low"
    /\ \A i \in 1..Len(scale_out.encoded) : scale_out.encoded[i] = 0

\* the list a genre_ids cell stands for: the list itself, the list a text
\* spells, and the empty list for a text that is no JSON or for no value
GenreListOf(c) == IF c.t \in {"list", "text_list"} THEN c.l ELSE <<>>

C18_RatingTier ==
    (fpc = "done" /\ feat.outcome = "row"
     /\ 0 < frow.vote_average /\ frow.vote_average <= MaxVoteAverage) =>
        LET va == frow.vote_average
            tier == feat.rating_tier
        IN  /\ tier \in {"Low", "Medium", "High", "Excellent"}
            /\ tier = "Low" <=> (0 < va /\ va <= 50)
            /\ tier = "Medium" <=> (50 < va /\ va <= 65)
            /\ tier = "High" <=> (65 < va /\ va <= 80)
            /\ tier = "Excellent" <=> (80 < va /\ va <= 100)
            /\ va = 95 => tier = "Excellent"
            /\ va = 55 => tier = "Medium"

\* a row with vote_average 6.5, on a threshold, got the tier Medium
C18_Witness ==
    /\ fpc = "done" /\ feat.outcome = "row"
    /\ frow.vote_average = 65
    /\ feat.rating_tier = "Medium"

-----------------------------------------------------------------------------
(***************************************************************************)
(* Properties: crawler                                                     *)
(***************************************************************************)

\* the records of the first i requests that were answered with records
RECURSIVE SucceededRecords(_)
SucceededRecords(i) ==
    IF i = 0 THEN <<>>
    ELSE SucceededRecords(i - 1)
         \o (IF fetched[i].kind = "ok" THEN Records(requested[i], fetched[i]) ELSE <<>>)

\* C19: whatever fails on a page (a status other than 200, a network error, a
\* body that cannot be parsed), the crawl is not aborted, and when it ends every
\* page of the range has been requested once, in ascending order, and the
\* result is the records of the answered pages in page order.
C19_FailedPageIsSkipped ==
    /\ kpc # "raised"
    /\ kpc = "returned" =>
          /\ requested = [i \in 1..(end_page - start_page + 1) |-> start_page + i - 1]
          /\ movies = SucceededRecords(Len(requested))

-----------------------------------------------------------------------------
(***************************************************************************)
(* Properties: training                                                    *)
(***************************************************************************)

\* C20: once a statement of train_model's try block has failed (loading the
\* train data, selecting the manifest columns, logging the parameters, fitting,
\* logging the model), the run is never FINISHED, train_model never returns,
\* the run is FAILED from the re-raise on, and no statement is called after the
\* failing one or called twice.
C20_FailureMarksRunFailed ==
    failed_step # "none" =>
        /\ run_status # "FINISHED"
        /\ tpc \in {"except", "reraise", "raised"}
        /\ tpc \in {"reraise", "raised"} => run_status = "FAILED"
        /\ calls # <<>> /\ calls[Len(calls)] = failed_step
        /\ \A i, j \in 1..Len(calls) : calls[i] = calls[j] => i = j

C20_Witness ==
    /\ tpc = "raised" /\ failed_step = "log_model" /\ run_status = "FAILED"
    /\ calls = <<"load_data", "select", "log_params", "fit", "log_model">>

-----------------------------------------------------------------------------
(***************************************************************************)
(* Properties: registration script                                         *)
(***************************************************************************)

\* C21: without --run_id, a script that ends with success registered the first
\* row the search returned, an active run whose rmse is the lowest among the
\* active runs that have one, and the version it registered is the one in
\* Production; when the experiment does not exist or has no active run the
\* script ends with an error and the registry is untouched.
C21_LowestRmsePromoted ==
    run_id_arg = 0 =>
        /\ mpc = "exit0" =>
              /\ experiment /\ search # <<>> /\ run_id_to_register = search[1]
              /\ run_id_to_register \in ActiveRuns(runs)
              /\ runs[run_id_to_register].has
              /\ \A j \in ActiveRuns(runs) :
                    runs[j].has => runs[run_id_to_register].rmse <= runs[j].rmse
              /\ ProdSet(reg) = {newver} /\ newver = Len(reg0) + 1
        /\ ((~experiment \/ ActiveRuns(runs) = {}) /\ mpc \notin {"start", "find"}) =>
              /\ mpc = "exit1"
              /\ find_error = (IF experiment THEN "no_runs" ELSE "no_experiment")
              /\ reg = reg0 /\ rpc = "off" /\ newver = 0

\* the script promoted the second of two active runs, the one with the lower rmse,
\* on a registry whose only version was in Production
C21_Witness ==
    /\ run_id_arg = 0 /\ mpc = "exit0"
    /\ Len(runs) = 2 /\ runs[1].active /\ runs[1].has /\ runs[2].active /\ runs[2].has
    /\ runs[2].rmse < runs[1].rmse
    /\ run_id_to_register = 2
    /\ ProdSet(reg0) = {1} /\ ProdSet(reg) = {2}

-----------------------------------------------------------------------------
(***************************************************************************)
(* Properties: serving, the startup window                                 *)
(***************************************************************************)

\* the startup hook is between its first line and its end
StartupWindow == pc \in {"boot", "constructed", "initialized"}

-----------------------------------------------------------------------------
(***************************************************************************)
(* Properties: preprocessing, steps 4 to 6                                 *)
(***************************************************************************)

\* C23: after step4_handle_missing_values no column of the frame handed to
\* step 5 has a missing value in any row.
C23_NoMissingAfterImpute ==
    ppc = "step4" => \A k \in 1..Len(pcols) : IsNull(pcols[k], cframe, pyears) = {}

\* C24: the frame step 5 returns is the untouched numeric columns (identifier
\* and columns of at most two values), then the scaled columns, then the encoded
\* columns, then the target; every column name occurs once.
C24_ScaledFrameLayout ==
    ppc = "step5" =>
        /\ \A i, j \in 1..Len(pcols) : pcols[i] = pcols[j] => i = j
        /\ pcols[Len(pcols)] = TargetColumn
        /\ \A i, j \in 1..(Len(pcols) - 1) :
              i < j => <<pcols[i].form, pcols[j].form>> \in
                          {<<"raw", "raw">>, <<"raw", "scaled">>, <<"raw", "encoded">>,
                           <<"scaled", "scaled">>, <<"scaled", "encoded">>,
                           <<"encoded", "encoded">>}

\* C25: after step 6, in either branch, every row of the frame is in exactly
\* one of train and test.
C25_SplitIsPartition ==
    ppc = "step6" =>
        /\ Range(psplit.train) \cup Range(psplit.test) = 1..Len(cframe)
        /\ Range(psplit.train) \cap Range(psplit.test) = {}
        /\ Len(psplit.train) + Len(psplit.test) = Len(cframe)

-----------------------------------------------------------------------------
(***************************************************************************)
(* Properties: registry, failures and the reader's load                    *)
(***************************************************************************)

\* C26: when register_and_promote_model ends with an exception, at any of its
\* steps, the versions that hold Production are those that held it before the call.
C26_FailureKeepsProduction ==
    rpc = "raised" => ProdSet(reg) = ProdSet(reg0)

\* C29: after load_production_model has succeeded, the model_version it recorded
\* is the registry version of the model object it loaded, also when a promotion
\* by another process ran between the existence check and the load.
C29_RecordedVersionIsLoaded ==
    lpc = "loaded" => (is_model_loaded /\ model_version = loaded_model)


-----------------------------------------------------------------------------
(***************************************************************************)
(* Properties: serving, the service object's flags and the status codes    *)
(***************************************************************************)

\* C27: in every state the service object can reach under any sequence of
\* initialize(), predict_all() and queries, is_ready implies that the model is
\* loaded and the data is loaded.
C27_ReadyImpliesLoaded ==
    is_ready => (is_model_loaded /\ is_data_loaded)

\* the answers the three data endpoints give in the current state
DataResponses ==
    {PredictionsResponse, StatsResponse} \cup {TopMoviesResponse(l) : l \in TopLimits}

\* C28: in every state of the service, each of /predictions, /top-movies and
\* /stats answers 503 exactly when the service object is absent or not ready,
\* 404 exactly when it is ready and predict_all has stored no predictions, and
\* 200 only when it is ready and predictions are stored; so a state that gives
\* 503 or 404 never gives 500.
C28_StatusFollowsState ==
    \A r \in DataResponses :
        /\ (r.status = 503) = ((~svc) \/ (~is_ready))
        /\ (r.status = 404) = (svc /\ is_ready /\ ~predictions.set)
        /\ (r.status = 200) => (svc /\ is_ready /\ predictions.set)
        /\ (r.status = 500) => (svc /\ is_ready /\ predictions.set)
        /\ r.status \in {200, 404, 500, 503}

\* /predictions was answered 404 by a ready service that has no predictions
C28_Witness ==
    /\ resp = PredictionsResponse /\ resp.status = 404
    /\ svc /\ is_ready /\ ~predictions.set
    /\ pred_result.called

-----------------------------------------------------------------------------
(***************************************************************************)
(* Properties: the DAG                                                     *)
(***************************************************************************)

\* attempt k is the last attempt made of its task
LastAttempt(k) == \A j \in (k + 1)..Len(attempts) : attempts[j].task # attempts[k].task

\* C30: within one run the scripts run in the order of the chain; a task starts
\* only after its predecessor's script ended with return code 0; a missing
\* script or a return code other than 0 makes run_script raise; and no later
\* task runs once the work of a stage has failed.
C30_FailedStageStopsRun ==
    \A k \in 1..Len(attempts) :
        /\ k = 1 => attempts[k].task = 1
        /\ k > 1 => attempts[k].task \in {attempts[k - 1].task, attempts[k - 1].task + 1}
        /\ (k > 1 /\ attempts[k].task = attempts[k - 1].task + 1) =>
              (attempts[k - 1].exists /\ attempts[k - 1].returncode = 0)
        /\ attempts[k].raised = ((~attempts[k].exists) \/ attempts[k].returncode # 0)
        /\ (LastAttempt(k) /\ attempts[k].work # "ok") =>
              \A j \in 1..Len(attempts) : attempts[j].task <= attempts[k].task

=============================================================================
